---- MODULE Spec2Model ----
(***************************************************************************)
(* GURT python client: the message codec (gurt/message.py), the status     *)
(* registry (gurt/protocol.py) and the connection / handshake negotiator   *)
(* (gurt/client.py).                                                       *)
(*                                                                         *)
(* Text is a sequence of characters and a byte string a sequence of bytes. *)
(* An ASCII character and its byte are the same one-character string; the  *)
(* text character U+00E9 is written "U+E9" and its UTF-8 encoding is the   *)
(* two bytes "0xC3" "0xA9"; "0xFF" is a byte that is never valid UTF-8.    *)
(***************************************************************************)
EXTENDS Integers, Sequences, FiniteSets, TLC

CR == "\r"
LF == "\n"
SP == " "
TAB == "\t"

(***************************************************************************)
(* Python str / bytes primitives used by the codec and the reader.         *)
(***************************************************************************)
Range(s) == {s[i] : i \in 1..Len(s)}

Last(s) == s[Len(s)]

Front(s) == SubSeq(s, 1, Len(s) - 1)

Drop(s, n) == SubSeq(s, n + 1, Len(s))

\* "".join(ss), by halves
RECURSIVE ConcatRange(_, _, _)
ConcatRange(ss, lo, hi) ==
    IF lo > hi THEN <<>>
    ELSE IF lo = hi THEN ss[lo]
    ELSE LET mid == (lo + hi) \div 2
         IN  ConcatRange(ss, lo, mid) \o ConcatRange(ss, mid + 1, hi)

Concat(ss) == ConcatRange(ss, 1, Len(ss))

\* str.isspace() for the characters of the alphabet
IsWS(c) == c \in {SP, TAB, CR, LF}

\* bytes.find(sep) + 1: index of the first occurrence of sep, 0 when absent
Find(s, sep) ==
    LET hits == {i \in 1..(Len(s) - Len(sep) + 1) :
                    SubSeq(s, i, i + Len(sep) - 1) = sep}
    IN  IF hits = {} THEN 0 ELSE CHOOSE i \in hits : \A j \in hits : i <= j

\* sep in s
Contains(s, sep) == Find(s, sep) # 0

\* s.startswith(p)
StartsWith(s, p) == Len(s) >= Len(p) /\ SubSeq(s, 1, Len(p)) = p

\* s.split(sep, k); k < 0 is "no limit", as in Python
RECURSIVE SplitMax(_, _, _)
SplitMax(s, sep, k) ==
    LET i == Find(s, sep)
    IN  IF k = 0 \/ i = 0
        THEN <<s>>
        ELSE <<SubSeq(s, 1, i - 1)>> \o SplitMax(Drop(s, i + Len(sep) - 1), sep, k - 1)

\* s.split(sep)
SplitAll(s, sep) == SplitMax(s, sep, -1)

\* s.split(): runs of whitespace separate the tokens, no empty token
RECURSIVE SplitWS(_)
SplitWS(s) ==
    IF s = <<>> THEN <<>>
    ELSE IF IsWS(Head(s)) THEN SplitWS(Tail(s))
    ELSE LET ends == {i \in 1..Len(s) : i = Len(s) \/ IsWS(s[i + 1])}
             n == CHOOSE i \in ends : \A j \in ends : i <= j
         IN  <<SubSeq(s, 1, n)>> \o SplitWS(Drop(s, n))

RECURSIVE LStrip(_)
LStrip(s) == IF s # <<>> /\ IsWS(Head(s)) THEN LStrip(Tail(s)) ELSE s

RECURSIVE RStrip(_)
RStrip(s) == IF s # <<>> /\ IsWS(Last(s)) THEN RStrip(Front(s)) ELSE s

\* s.strip()
Strip(s) == RStrip(LStrip(s))

UpperChars == <<"A", "B", "C", "D", "E", "F", "G", "H", "I", "J", "K", "L", "M",
                "N", "O", "P", "Q", "R", "S", "T", "U", "V", "W", "X", "Y", "Z">>

LowerChars == <<"a", "b", "c", "d", "e", "f", "g", "h", "i", "j", "k", "l", "m",
                "n", "o", "p", "q", "r", "s", "t", "u", "v", "w", "x", "y", "z">>

\* the lower-case letter of each upper-case letter
LowerOf == [c \in Range(UpperChars) |-> LowerChars[CHOOSE i \in 1..26 : UpperChars[i] = c]]

LowerChar(c) == IF c \in DOMAIN LowerOf THEN LowerOf[c] ELSE c

\* s.lower()
Lower(s) == [i \in 1..Len(s) |-> LowerChar(s[i])]

DigitChars == <<"0", "1", "2", "3", "4", "5", "6", "7", "8", "9">>

IsDigit(c) == \E i \in 1..10 : DigitChars[i] = c

DigitVal(c) == (CHOOSE i \in 1..10 : DigitChars[i] = c) - 1

RECURSIVE DigitsVal(_)
DigitsVal(s) == IF s = <<>> THEN 0 ELSE DigitsVal(Front(s)) * 10 + DigitVal(Last(s))

\* int(s): surrounding whitespace, one sign and single underscores between
\* digits are accepted; ok = FALSE is ValueError
PyInt(s) ==
    LET \* d is the digits of t, sign is 1 or -1
        Digits(d, sign) ==
            IF \/ d = <<>>
               \/ \E i \in 1..Len(d) : ~IsDigit(d[i]) /\ d[i] # "_"
               \/ \E i \in 1..Len(d) :
                     d[i] = "_" /\ (i = 1 \/ i = Len(d) \/ d[i - 1] = "_")
            THEN [ok |-> FALSE, val |-> 0]
            ELSE [ok |-> TRUE, val |-> sign * DigitsVal(SelectSeq(d, IsDigit))]
        Stripped(t) ==
            IF t # <<>> /\ Head(t) \in {"+", "-"}
            THEN Digits(Tail(t), IF Head(t) = "-" THEN -1 ELSE 1)
            ELSE Digits(t, 1)
    IN  Stripped(Strip(s))

\* str(n) for n >= 0
RECURSIVE IntToStr(_)
IntToStr(n) ==
    IF n < 10 THEN <<DigitChars[n + 1]>>
    ELSE IntToStr(n \div 10) \o <<DigitChars[(n % 10) + 1]>>

\* str.encode('utf-8')
Utf8Encode(t) == Concat([i \in 1..Len(t) |-> IF t[i] = "U+E9" THEN <<"0xC3", "0xA9">> ELSE <<t[i]>>])

\* whether bytes.decode('utf-8') succeeds (FALSE is UnicodeDecodeError)
Utf8Valid(b) ==
    \A i \in 1..Len(b) :
        /\ b[i] # "0xFF"
        /\ b[i] = "0xC3" => (i < Len(b) /\ b[i + 1] = "0xA9")
        /\ b[i] = "0xA9" => (i > 1 /\ b[i - 1] = "0xC3")

IsLeadByte(c) == c # "0xA9"

\* bytes.decode('utf-8') of a valid byte string
Utf8Decode(b) ==
    LET lead == SelectSeq(b, IsLeadByte)
    IN  [i \in 1..Len(lead) |-> IF lead[i] = "0xC3" THEN "U+E9" ELSE lead[i]]

(***************************************************************************)
(* Ordered dict (headers): a sequence of <<key, value>> with unique keys.  *)
(***************************************************************************)
DictHas(h, k) == \E i \in 1..Len(h) : h[i][1] = k

\* h[k] = v: an existing key keeps its position
DictSet(h, k, v) ==
    IF DictHas(h, k)
    THEN [i \in 1..Len(h) |-> IF h[i][1] = k THEN <<k, v>> ELSE h[i]]
    ELSE Append(h, <<k, v>>)

DictItems(h) == Range(h)

DictKeys(h) == {h[i][1] : i \in 1..Len(h)}

\* h.get(k): <<>> stands for None when the key is absent
DictGet(h, k) == IF DictHas(h, k) THEN (CHOOSE e \in Range(h) : e[1] = k)[2] ELSE <<>>

(***************************************************************************)
(* gurt/protocol.py                                                        *)
(***************************************************************************)
GURT_VERSION == <<"1", ".", "0", ".", "0">>

PROTOCOL_PREFIX == <<"G", "U", "R", "T", "/">>

HEADER_SEPARATOR == <<CR, LF>>

BODY_SEPARATOR == <<CR, LF, CR, LF>>

GURT_ALPN == <<"G", "U", "R", "T", "/", "1", ".", "0">>

\* GurtStatusCode: the values of the enumeration
StatusCodes == {101, 200, 201, 202, 204, 400, 401, 403, 404, 405, 408, 413, 415, 429, 500, 501, 502, 503, 504}

STATUS_MESSAGES(n) ==
    CASE n = 200 -> <<"O", "K">>
      [] n = 201 -> <<"C", "R", "E", "A", "T", "E", "D">>
      [] n = 202 -> <<"A", "C", "C", "E", "P", "T", "E", "D">>
      [] n = 204 -> <<"N", "O", "_", "C", "O", "N", "T", "E", "N", "T">>
      [] n = 101 -> <<"S", "W", "I", "T", "C", "H", "I", "N", "G", "_", "P", "R", "O", "T", "O", "C", "O", "L", "S">>
      [] n = 400 -> <<"B", "A", "D", "_", "R", "E", "Q", "U", "E", "S", "T">>
      [] n = 401 -> <<"U", "N", "A", "U", "T", "H", "O", "R", "I", "Z", "E", "D">>
      [] n = 403 -> <<"F", "O", "R", "B", "I", "D", "D", "E", "N">>
      [] n = 404 -> <<"N", "O", "T", "_", "F", "O", "U", "N", "D">>
      [] n = 405 -> <<"M", "E", "T", "H", "O", "D", "_", "N", "O", "T", "_", "A", "L", "L", "O", "W", "E", "D">>
      [] n = 408 -> <<"T", "I", "M", "E", "O", "U", "T">>
      [] n = 413 -> <<"T", "O", "O", "_", "L", "A", "R", "G", "E">>
      [] n = 415 -> <<"U", "N", "S", "U", "P", "P", "O", "R", "T", "E", "D", "_", "M", "E", "D", "I", "A", "_", "T", "Y", "P", "E">>
      [] n = 429 -> <<"T", "O", "O", "_", "M", "A", "N", "Y", "_", "R", "E", "Q", "U", "E", "S", "T", "S">>
      [] n = 500 -> <<"I", "N", "T", "E", "R", "N", "A", "L", "_", "S", "E", "R", "V", "E", "R", "_", "E", "R", "R", "O", "R">>
      [] n = 501 -> <<"N", "O", "T", "_", "I", "M", "P", "L", "E", "M", "E", "N", "T", "E", "D">>
      [] n = 502 -> <<"B", "A", "D", "_", "G", "A", "T", "E", "W", "A", "Y">>
      [] n = 503 -> <<"S", "E", "R", "V", "I", "C", "E", "_", "U", "N", "A", "V", "A", "I", "L", "A", "B", "L", "E">>
      [] n = 504 -> <<"G", "A", "T", "E", "W", "A", "Y", "_", "T", "I", "M", "E", "O", "U", "T">>

\* the keys of STATUS_MESSAGES
StatusMessageCodes == {200, 201, 202, 204, 101, 400, 401, 403, 404, 405, 408, 413, 415, 429, 500, 501, 502, 503, 504}

\* GurtStatusCode.message
StatusMessage(n) == IF n \in StatusMessageCodes THEN STATUS_MESSAGES(n) ELSE <<"U", "N", "K", "N", "O", "W", "N">>

\* GurtStatusCode.is_success
IsSuccess(n) == n \in {200, 201, 202, 204}

\* a client-error test without the upper end
IsClientErrorNoUpperEnd(n) == 400 <= n

\* GurtStatusCode.is_client_error
IsClientError(n) == 400 <= n /\ n < 500

\* GurtStatusCode.is_server_error
IsServerError(n) == n >= 500

(***************************************************************************)
(* gurt/errors.py: an exception is its class and its message.  The message *)
(* is a sequence of pieces, a piece being a literal of the source or one   *)
(* character of an interpolated value.                                     *)
(***************************************************************************)
Exc(kind, msg) == [kind |-> kind, msg |-> msg]

\* the subclasses of GurtError, and GurtError itself
GurtErrorKinds == {"GurtError", "GurtProtocolError", "GurtConnectionError",
                   "GurtTimeoutError", "GurtTLSError", "GurtHandshakeError"}

\* the exception classes of the standard library the client meets
LowLevelKinds == {"socket.timeout", "OSError", "ssl.SSLError", "UnicodeDecodeError", "UnicodeError"}

(***************************************************************************)
(* gurt/message.py                                                         *)
(***************************************************************************)
\* GurtMethod: member name -> value
GurtMethod ==
    [GET |-> <<"G", "E", "T">>,
     POST |-> <<"P", "O", "S", "T">>,
     PUT |-> <<"P", "U", "T">>,
     DELETE |-> <<"D", "E", "L", "E", "T", "E">>,
     HEAD |-> <<"H", "E", "A", "D">>,
     OPTIONS |-> <<"O", "P", "T", "I", "O", "N", "S">>,
     PATCH |-> <<"P", "A", "T", "C", "H">>,
     HANDSHAKE |-> <<"H", "A", "N", "D", "S", "H", "A", "K", "E">>]

Methods == DOMAIN GurtMethod

K_CONTENT_LENGTH == <<"c", "o", "n", "t", "e", "n", "t", "-", "l", "e", "n", "g", "t", "h">>

K_USER_AGENT == <<"u", "s", "e", "r", "-", "a", "g", "e", "n", "t">>

K_SERVER == <<"s", "e", "r", "v", "e", "r">>

K_DATE == <<"d", "a", "t", "e">>

K_HOST == <<"H", "o", "s", "t">>

K_USER_AGENT_ARG == <<"U", "s", "e", "r", "-", "A", "g", "e", "n", "t">>

K_CONTENT_TYPE_ARG == <<"C", "o", "n", "t", "e", "n", "t", "-", "T", "y", "p", "e">>

\* f"GURT-Python-Client/{GURT_VERSION}"
DEFAULT_USER_AGENT ==
    <<"G", "U", "R", "T", "-", "P", "y", "t", "h", "o", "n", "-", "C", "l", "i", "e", "n", "t", "/">> \o GURT_VERSION

\* f"GURT/{GURT_VERSION}"
DEFAULT_SERVER == <<"G", "U", "R", "T", "/">> \o GURT_VERSION

\* GurtRequest.__init__
NewRequest(method, path, version) ==
    [method |-> method, path |-> path, version |-> version, headers |-> <<>>, body |-> <<>>]

\* a with_header that stores the key as the caller wrote it
WithHeaderKeepCase(m, key, value) == [m EXCEPT !.headers = DictSet(@, key, value)]

\* GurtRequest.with_header / GurtResponse.with_header
WithHeader(m, key, value) == [m EXCEPT !.headers = DictSet(@, Lower(key), value)]

\* GurtRequest.get_header / GurtResponse.get_header: some = FALSE is None
GetHeader(m, key) ==
    [some |-> DictHas(m.headers, Lower(key)), val |-> DictGet(m.headers, Lower(key))]

K_CONTENT_TYPE == <<"c", "o", "n", "t", "e", "n", "t", "-", "t", "y", "p", "e">>

APPLICATION_JSON ==
    <<"a", "p", "p", "l", "i", "c", "a", "t", "i", "o", "n", "/", "j", "s", "o", "n">>

\* json.dumps of one character of a string (ensure_ascii is on)
JsonEscape(c) ==
    IF c = "U+E9" THEN <<"\\", "u", "0", "0", "e", "9">>
    ELSE IF c \in {"\"", "\\"} THEN <<"\\", c>>
    ELSE <<c>>

\* json.dumps(data) for data None or a str
JsonDumps(data) ==
    IF data.t = "null" THEN <<"n", "u", "l", "l">>
    ELSE <<"\"">> \o Concat([i \in 1..Len(data.s) |-> JsonEscape(data.s[i])]) \o <<"\"">>

\* GurtResponse.with_json_body
WithJsonBody(m, data) ==
    [m EXCEPT !.body = Utf8Encode(JsonDumps(data)),
              !.headers = DictSet(@, K_CONTENT_TYPE, APPLICATION_JSON)]

\* GurtRequest.with_body / GurtResponse.with_body with a str argument
WithBody(m, text) == [m EXCEPT !.body = Utf8Encode(text)]

\* the "key: value\r\n" lines of to_bytes
RECURSIVE HeaderLines(_)
HeaderLines(h) ==
    IF h = <<>> THEN <<>>
    ELSE Head(h)[1] \o <<":", SP>> \o Head(h)[2] \o HEADER_SEPARATOR \o HeaderLines(Tail(h))

\* GurtRequest.to_bytes, "Add default headers": the local headers
RequestWireHeaders(r) ==
    LET h1 == IF DictHas(r.headers, K_CONTENT_LENGTH) THEN r.headers
              ELSE DictSet(r.headers, K_CONTENT_LENGTH, IntToStr(Len(r.body)))
    IN  IF DictHas(h1, K_USER_AGENT) THEN h1
        ELSE DictSet(h1, K_USER_AGENT, DEFAULT_USER_AGENT)

\* GurtRequest.to_bytes: the bytes it returns
RequestToBytes(r) ==
    LET line == GurtMethod[r.method] \o <<SP>> \o r.path \o <<SP>>
                \o PROTOCOL_PREFIX \o r.version \o HEADER_SEPARATOR
    IN  Utf8Encode(line \o HeaderLines(RequestWireHeaders(r)) \o HEADER_SEPARATOR) \o r.body

\* a to_bytes that adds the default headers to self.headers itself
RequestAfterToBytesNoCopy(r) == [r EXCEPT !.headers = RequestWireHeaders(r)]

\* GurtRequest.to_bytes: the request it leaves; the defaults go to
\* self.headers.copy() and no attribute is assigned
RequestAfterToBytes(r) == r

\* a header loop that keeps the value as it follows the colon
RECURSIVE ParseHeaderLinesNoStrip(_, _)
ParseHeaderLinesNoStrip(lines, h) ==
    IF lines = <<>> \/ Strip(Head(lines)) = <<>> THEN h
    ELSE IF Contains(Head(lines), <<":">>)
         THEN LET kv == SplitMax(Head(lines), <<":">>, 1)
              IN  ParseHeaderLinesNoStrip(Tail(lines), DictSet(h, Lower(Strip(kv[1])), kv[2]))
         ELSE ParseHeaderLinesNoStrip(Tail(lines), h)

\* the header loop shared by GurtRequest.parse and GurtResponse.parse
RECURSIVE ParseHeaderLines(_, _)
ParseHeaderLines(lines, h) ==
    IF lines = <<>> \/ Strip(Head(lines)) = <<>> THEN h
    ELSE IF Contains(Head(lines), <<":">>)
         THEN LET kv == SplitMax(Head(lines), <<":">>, 1)
              IN  ParseHeaderLines(Tail(lines), DictSet(h, Lower(Strip(kv[1])), Strip(kv[2])))
         ELSE ParseHeaderLines(Tail(lines), h)

\* the split of the buffer at the first blank line (both parse methods)
SplitMessage(data) ==
    IF Contains(data, BODY_SEPARATOR) THEN SplitMax(data, BODY_SEPARATOR, 1) ELSE <<data, <<>>>>

Ok(v) == [ok |-> TRUE, val |-> v]

Raise(e) == [ok |-> FALSE, err |-> e]

\* GurtRequest.parse
RequestParse(data) ==
    LET \* from the request line on: parts is the split request line
        RequestLine(sp, lines, parts) ==
            IF Len(parts) # 3
            THEN Raise(Exc("GurtProtocolError", <<"Invalid request line format">>))
            ELSE IF \A m \in Methods : GurtMethod[m] # parts[1]
            THEN Raise(Exc("GurtProtocolError", <<"Unsupported method: ">> \o parts[1]))
            ELSE IF ~StartsWith(parts[3], PROTOCOL_PREFIX)
            THEN Raise(Exc("GurtProtocolError", <<"Invalid protocol identifier">>))
            ELSE Ok([method |-> CHOOSE m \in Methods : GurtMethod[m] = parts[1],
                     path |-> parts[2],
                     version |-> Drop(parts[3], Len(PROTOCOL_PREFIX)),
                     headers |-> ParseHeaderLines(Tail(lines), <<>>),
                     body |-> sp[2]])
        \* from the decoded header section on: lines are its lines
        Decoded(sp, lines) ==
            IF lines = <<>> THEN Raise(Exc("GurtProtocolError", <<"Empty request">>))
            ELSE RequestLine(sp, lines, SplitWS(lines[1]))
        \* sp is the header section and the body
        Split(sp) ==
            IF ~Utf8Valid(sp[1]) THEN Raise(Exc("UnicodeDecodeError", <<"invalid utf-8">>))
            ELSE Decoded(sp, SplitAll(Utf8Decode(sp[1]), HEADER_SEPARATOR))
    IN  Split(SplitMessage(data))

\* GurtResponse.__init__
NewResponse(status_code, version) ==
    [version |-> version, status_code |-> status_code,
     status_message |-> StatusMessage(status_code), headers |-> <<>>, body |-> <<>>]

\* a status line that always carries the registry's message of the code
ResponseStatusLineCanonical(s) ==
    PROTOCOL_PREFIX \o s.version \o <<SP>> \o IntToStr(s.status_code)
    \o <<SP>> \o StatusMessage(s.status_code) \o HEADER_SEPARATOR

\* the status line of GurtResponse.to_bytes
ResponseStatusLine(s) ==
    PROTOCOL_PREFIX \o s.version \o <<SP>> \o IntToStr(s.status_code)
    \o <<SP>> \o s.status_message \o HEADER_SEPARATOR

\* GurtResponse.to_bytes, "Add default headers": the local headers; now is
\* the formatted current time
ResponseWireHeaders(s, now) ==
    LET h1 == IF DictHas(s.headers, K_CONTENT_LENGTH) THEN s.headers
              ELSE DictSet(s.headers, K_CONTENT_LENGTH, IntToStr(Len(s.body)))
        h2 == IF DictHas(h1, K_SERVER) THEN h1 ELSE DictSet(h1, K_SERVER, DEFAULT_SERVER)
    IN  IF DictHas(h2, K_DATE) THEN h2 ELSE DictSet(h2, K_DATE, now)

\* GurtResponse.to_bytes: the bytes it returns
ResponseToBytes(s, now) ==
    Utf8Encode(ResponseStatusLine(s) \o HeaderLines(ResponseWireHeaders(s, now))
               \o HEADER_SEPARATOR) \o s.body

\* GurtResponse.to_bytes: the response it leaves
ResponseAfterToBytes(s, now) == s

\* a decode that keeps the registry's message whatever the status line has
StatusMessageOverrideNever(parts, message) == message

\* GurtResponse.parse, "Override status message if provided": message is
\* the one the constructor gave
StatusMessageOverride(parts, message) == IF Len(parts) > 2 THEN parts[3] ELSE message

\* GurtResponse.parse
ResponseParse(data) ==
    LET \* the response of status code.val
        Built(sp, lines, parts, code, r0) ==
            Ok([r0 EXCEPT !.status_message = StatusMessageOverride(parts, @),
                          !.headers = ParseHeaderLines(Tail(lines), <<>>),
                          !.body = sp[2]])
        \* from the status code on: code is the outcome of int()
        Status(sp, lines, parts, code) ==
            IF ~code.ok \/ code.val \notin StatusCodes
            THEN Raise(Exc("GurtProtocolError", <<"Invalid status code: ">> \o parts[2]))
            ELSE Built(sp, lines, parts, code,
                       NewResponse(code.val, Drop(parts[1], Len(PROTOCOL_PREFIX))))
        \* from the status line on: parts is the split status line
        StatusLine(sp, lines, parts) ==
            IF Len(parts) < 2
            THEN Raise(Exc("GurtProtocolError", <<"Invalid status line format">>))
            ELSE IF ~StartsWith(parts[1], PROTOCOL_PREFIX)
            THEN Raise(Exc("GurtProtocolError", <<"Invalid protocol identifier">>))
            ELSE Status(sp, lines, parts, PyInt(parts[2]))
        \* from the decoded header section on: lines are its lines
        Decoded(sp, lines) ==
            IF lines = <<>> THEN Raise(Exc("GurtProtocolError", <<"Empty response">>))
            ELSE StatusLine(sp, lines, SplitMax(lines[1], <<SP>>, 2))
        \* sp is the header section and the body
        Split(sp) ==
            IF ~Utf8Valid(sp[1]) THEN Raise(Exc("UnicodeDecodeError", <<"invalid utf-8">>))
            ELSE Decoded(sp, SplitAll(Utf8Decode(sp[1]), HEADER_SEPARATOR))
    IN  Split(SplitMessage(data))

(***************************************************************************)
(* gurt/client.py: pure parts                                              *)
(***************************************************************************)
DEFAULT_PORT == 4878

DEFAULT_HANDSHAKE_TIMEOUT == 5

DEFAULT_REQUEST_TIMEOUT == 30

DEFAULT_CONNECTION_TIMEOUT == 10

\* sock.recv(4096)
RECV_SIZE == 4096

\* MAX_MESSAGE_SIZE, scaled down from 10 MiB so that an oversized header
\* block is a message the peer of the model can send
MaxMessageSize == 48

\* the largest number of bytes one recv delivers short of all that is pending
MaxChunk == 3

SCHEME == <<"g", "u", "r", "t", ":", "/", "/">>

\* index of the first character of s that is in cs, Len(s) + 1 when none
FirstOf(s, cs) ==
    LET hits == {i \in 1..Len(s) : s[i] \in cs}
    IN  IF hits = {} THEN Len(s) + 1 ELSE CHOOSE i \in hits : \A j \in hits : i <= j

\* index of the last character of s that is in cs, 0 when none
LastOf(s, cs) ==
    LET hits == {i \in 1..Len(s) : s[i] \in cs}
    IN  IF hits = {} THEN 0 ELSE CHOOSE i \in hits : \A j \in hits : i >= j

NotUnsafeUrlChar(c) == c \notin {TAB, CR, LF}

\* GurtClient._parse_gurt_url (with urllib.parse.urlparse on a gurt:// URL)
ParseGurtUrl(url) ==
    LET rest == Drop(SelectSeq(url, NotUnsafeUrlChar), Len(SCHEME))
        ne == FirstOf(rest, {"/", "?", "#"})
        netloc == SubSeq(rest, 1, ne - 1)
        nofrag == LET t == Drop(rest, ne - 1) IN SubSeq(t, 1, FirstOf(t, {"#"}) - 1)
        qi == FirstOf(nofrag, {"?"})
        upath == SubSeq(nofrag, 1, qi - 1)
        query == Drop(nofrag, qi)
        hostinfo == Drop(netloc, LastOf(netloc, {"@"}))
        ci == FirstOf(hostinfo, {":"})
        hostname == Lower(SubSeq(hostinfo, 1, ci - 1))
        portstr == Drop(hostinfo, ci)
        portnum == DigitsVal(portstr)
        path == IF upath = <<>> THEN <<"/">> ELSE upath
    IN  IF ~StartsWith(url, SCHEME)
        THEN Raise(Exc("GurtError", <<"URL must use gurt:// scheme: ">> \o url))
        ELSE IF hostname = <<>>
        THEN Raise(Exc("GurtError", <<"URL must have a hostname: ">> \o url))
        ELSE IF portstr # <<>> /\ ((\E i \in 1..Len(portstr) : ~IsDigit(portstr[i])) \/ portnum > 65535)
        THEN Raise(Exc("ValueError", <<"Port could not be cast to integer value / out of range">>))
        ELSE Ok([host |-> hostname,
                 port |-> IF portstr = <<>> \/ portnum = 0 THEN DEFAULT_PORT ELSE portnum,
                 path |-> IF query # <<>> THEN path \o <<"?">> \o query ELSE path])

\* GurtClientConfig.__init__ with its defaults
DefaultConfig ==
    [handshake_timeout |-> DEFAULT_HANDSHAKE_TIMEOUT,
     request_timeout |-> DEFAULT_REQUEST_TIMEOUT,
     connection_timeout |-> DEFAULT_CONNECTION_TIMEOUT,
     user_agent |-> DEFAULT_USER_AGENT,
     verify_tls |-> FALSE]

\* GurtClient._create_ssl_context
CreateSslContext(cfg) ==
    [minimum_version |-> "TLSv1_3", maximum_version |-> "TLSv1_3",
     alpn_protocols |-> <<GURT_ALPN>>,
     check_hostname |-> cfg.verify_tls,
     verify_mode |-> IF cfg.verify_tls THEN "CERT_REQUIRED" ELSE "CERT_NONE"]

IsGurtError(e) == e.kind \in GurtErrorKinds

\* the except clauses of _create_connection in the other order: socket.error
\* is OSError and socket.timeout is one of its subclasses
CreateConnectionWrapSwapped(e) ==
    IF e.kind \in {"OSError", "ssl.SSLError", "socket.timeout"}
    THEN Exc("GurtConnectionError", <<"Failed to connect to host:port: ">> \o e.msg)
    ELSE e

\* GurtClient._create_connection, the except clauses
CreateConnectionWrap(e) ==
    IF e.kind = "socket.timeout"
    THEN Exc("GurtTimeoutError", <<"Connection timeout to host:port">>)
    ELSE IF e.kind \in {"OSError", "ssl.SSLError"}
    THEN Exc("GurtConnectionError", <<"Failed to connect to host:port: ">> \o e.msg)
    ELSE e

\* GurtClient._perform_handshake, the except clauses
HandshakeWrap(e) ==
    IF e.kind = "socket.timeout" THEN Exc("GurtTimeoutError", <<"Handshake timeout">>)
    ELSE IF e.kind = "ssl.SSLError" THEN Exc("GurtTLSError", <<"TLS handshake failed: ">> \o e.msg)
    ELSE IF e.kind \in {"GurtHandshakeError", "GurtTLSError", "GurtTimeoutError"} THEN e
    ELSE Exc("GurtHandshakeError", <<"Handshake failed: ">> \o e.msg)

\* _send_request_internal without its last raise: what is not a GurtError
\* leaves as it is
RequestWrapLeaky(e) ==
    IF e.kind = "socket.timeout" THEN Exc("GurtTimeoutError", <<"Request timeout">>)
    ELSE e

\* GurtClient._send_request_internal, the except clauses
RequestWrap(e) ==
    IF e.kind = "socket.timeout" THEN Exc("GurtTimeoutError", <<"Request timeout">>)
    ELSE IF IsGurtError(e) THEN e
    ELSE Exc("GurtConnectionError", <<"Request failed: ">> \o e.msg)

ConnectPhases == {"connect"}

HandshakePhases == {"hs_send", "hs_recv", "hs_decode", "hs_status", "wrap", "alpn"}

ExchangePhases == {"req_send", "resp_recv", "resp_decode"}

\* the exception the caller of a verb method sees for exception e raised in
\* the given phase: the handlers it passes through on its way out
Surface(phase, e) ==
    IF phase \in ConnectPhases THEN RequestWrap(CreateConnectionWrap(e))
    ELSE IF phase \in HandshakePhases THEN RequestWrap(HandshakeWrap(e))
    ELSE IF phase \in ExchangePhases THEN RequestWrap(e)
    ELSE e

\* the content-length scan of GurtClient._read_response_data
ContentLength(headers_str) ==
    LET \* n is the outcome of int() on the value of the line
        Value(n) == IF n.ok THEN n.val ELSE 0
        \* hits are the lines that start with "content-length:"
        Scan(lines, hits) ==
            IF hits = {} THEN 0
            ELSE Value(PyInt(Strip(SplitMax(lines[CHOOSE i \in hits : \A j \in hits : i <= j],
                                            <<":">>, 1)[2])))
        Lines(lines) ==
            Scan(lines, {i \in 1..Len(lines) :
                            StartsWith(Lower(lines[i]), K_CONTENT_LENGTH \o <<":">>)})
    IN  Lines(SplitAll(headers_str, HEADER_SEPARATOR))

\* the local variables of GurtClient._read_response_data
NewReader == [inBody |-> FALSE, data |-> <<>>, headers_data |-> <<>>,
              body_data |-> <<>>, content_length |-> 0]

\* the size argument of the next sock.recv of the reader
RecvArg(rd) ==
    IF rd.inBody
    THEN IF RECV_SIZE < rd.content_length - Len(rd.body_data)
         THEN RECV_SIZE ELSE rd.content_length - Len(rd.body_data)
    ELSE RECV_SIZE

\* a body loop that stops one byte early
BodyIncompleteOffByOne(body_data, content_length) == Len(body_data) + 1 < content_length

\* the condition of the body loop of GurtClient._read_response_data
BodyIncomplete(body_data, content_length) == Len(body_data) < content_length

\* a size test that also rejects a message of exactly the maximum size
TooLargeInclusive(data) == Len(data) >= MaxMessageSize

\* the size test of the header loop of GurtClient._read_response_data
TooLarge(data) == Len(data) > MaxMessageSize

\* a body loop that keeps only the last chunk
BodyAppendLastOnly(body_data, chunk) == chunk

\* body_data += chunk in the body loop of GurtClient._read_response_data
BodyAppend(body_data, chunk) == body_data \o chunk

\* GurtClient._read_response_data from one recv to the next: chunk is what the
\* recv returned (<<>> when the peer closed).  st is "more" (another recv
\* follows), "done" (ret is returned) or "raise" (err is raised).
ReadStep(rd, chunk) ==
    LET \* the header block hd is complete, bd is what follows it in d, cl the
        \* content length it announces
        Scanned(d, hd, bd, cl) ==
            IF BodyIncomplete(bd, cl)
            THEN [st |-> "more", rd |-> [inBody |-> TRUE, data |-> d, headers_data |-> hd,
                                         body_data |-> bd, content_length |-> cl]]
            ELSE [st |-> "done", ret |-> hd \o bd]
        Separated(d, hd, bd) ==
            IF ~Utf8Valid(hd)
            THEN [st |-> "raise", err |-> Exc("UnicodeDecodeError", <<"invalid utf-8">>)]
            ELSE Scanned(d, hd, bd, ContentLength(Utf8Decode(hd)))
        \* he is the index of the last byte of the first blank line of d
        Found(d, he) == Separated(d, SubSeq(d, 1, he), Drop(d, he))
        \* d is data after the recv
        Headers(d) ==
            IF chunk = <<>>
            THEN [st |-> "raise", err |-> Exc("GurtConnectionError", <<"Connection closed while reading headers">>)]
            ELSE IF TooLarge(d)
            THEN [st |-> "raise", err |-> Exc("GurtProtocolError", <<"Response too large">>)]
            ELSE IF ~Contains(d, BODY_SEPARATOR)
            THEN [st |-> "more", rd |-> [rd EXCEPT !.data = d]]
            ELSE Found(d, Find(d, BODY_SEPARATOR) + Len(BODY_SEPARATOR) - 1)
        \* bd is body_data after the recv
        Body(bd) ==
            IF chunk = <<>>
            THEN [st |-> "raise", err |-> Exc("GurtConnectionError", <<"Connection closed while reading body">>)]
            ELSE IF BodyIncomplete(bd, rd.content_length)
            THEN [st |-> "more", rd |-> [rd EXCEPT !.body_data = bd]]
            ELSE [st |-> "done", ret |-> rd.headers_data \o bd]
    IN  IF ~rd.inBody THEN Headers(rd.data \o chunk) ELSE Body(BodyAppend(rd.body_data, chunk))

(***************************************************************************)
(* The inputs of the model: the caller's arguments and the peer.           *)
(***************************************************************************)
Verbs == {"get", "post", "put", "delete", "head", "options"}

\* the GurtMethod of each verb method of GurtClient
VerbMethod(v) ==
    CASE v = "get" -> "GET" [] v = "post" -> "POST" [] v = "put" -> "PUT"
      [] v = "delete" -> "DELETE" [] v = "head" -> "HEAD" [] v = "options" -> "OPTIONS"

Urls ==
    {<<"g", "u", "r", "t", ":", "/", "/", "H", ":", "8", "0", "/", "a", "?", "q">>,
     <<"h", "t", "t", "p", ":", "/", "/", "h", "/">>,
     <<"g", "u", "r", "t", ":", "/", "/", "/", "a">>}

Bodies == {<<"U+E9">>}

TEXT_PLAIN == <<"t", "e", "x", "t", "/", "p", "l", "a", "i", "n">>

Configs == {DefaultConfig,
            [handshake_timeout |-> 1, request_timeout |-> 2, connection_timeout |-> 3,
             user_agent |-> <<"u", "a", "/", "1">>, verify_tls |-> TRUE]}

\* what the peer may send in answer to a request
\* what is pending from a peer that never stops sending: every recv finds
\* bytes, however many were taken before
EndlessTail == [i \in 1..(MaxChunk + 1) |-> "z"]

\* the pending bytes s come from a peer that never stops sending
IsEndless(s) ==
    /\ Len(s) >= Len(EndlessTail)
    /\ SubSeq(s, Len(s) - Len(EndlessTail) + 1, Len(s)) = EndlessTail

PeerMessages ==
    {<<"G", "U", "R", "T", "/", "1", ".", "0", ".", "0", SP, "1", "0", "1", SP, "S", CR, LF, CR, LF>>,
     <<"G", "U", "R", "T", "/", "1", ".", "0", ".", "0", SP, "1", "0", "1", SP, "S", CR, LF,
       "C", "o", "n", "t", "e", "n", "t", "-", "L", "e", "n", "g", "t", "h", ":", SP, "1", CR, LF, CR, LF, ".">>,
     <<"G", "U", "R", "T", "/", "1", ".", "0", ".", "0", SP, "2", "0", "0", SP, "O", "K", CR, LF,
       "c", "o", "n", "t", "e", "n", "t", "-", "l", "e", "n", "g", "t", "h", ":", SP, "2", CR, LF, CR, LF, "h", "i">>,
     <<"G", "U", "R", "T", "/", "1", ".", "0", ".", "0", SP, "1", "0", "1", SP, "S", CR, LF,
       "U", "p", "g", "r", "a", "d", "e", ":", SP, "G", "U", "R", "T", "/", "1", ".", "0", CR, LF, CR, LF>>,
     <<"G", "U", "R", "T", "/", "1", ".", "0", ".", "0", SP, "4", "0", "4", CR, LF, CR, LF>>,
     <<"G", "U", "R", "T", "/", "1", ".", "0", ".", "0", SP, "3", "0", "2", SP, "F", "o", "u", "n", "d", CR, LF, CR, LF>>,
     <<"H", "T", "T", "P", "/", "1", ".", "1", SP, "2", "0", "0", SP, "O", "K", CR, LF, CR, LF>>,
     <<"G", "U", "R", "T", "/", "1", SP, "2", "0", "0", SP, "0xFF", CR, LF, CR, LF>>,
     <<"G", "U", "R", "T", "/", "1", ".", "0", ".", "0", SP, "2", "0", "0", SP, "O", "K", CR, LF,
       "c", "o", "n", "t", "e", "n", "t", "-", "l", "e", "n", "g", "t", "h", ":", SP, "x", CR, LF, CR, LF,
       "h", "i">>,
     <<"G", "U", "R", "T", "/", "1", SP, "2", "0", "0", CR, LF,
       "C", "o", "n", "t", "e", "n", "t", "-", "L", "e", "n", "g", "t", "h", SP, ":", SP, "2", CR, LF, CR, LF,
       "h", "i">>,
     [i \in 1..(MaxMessageSize + 1) |-> "x"],
     EndlessTail,
     <<"G", "U", "R", "T", "/", "1", ".", "0", ".", "0", SP, "2", "0", "0", CR, LF,
       "c", "o", "n", "t", "e", "n", "t", "-", "l", "e", "n", "g", "t", "h", ":", "5", CR, LF, CR, LF>>
         \o EndlessTail,
     [i \in 1..(MaxMessageSize - 3) |-> "x"] \o BODY_SEPARATOR,
     <<"G", "U", "R", "T", "/", "1", ".", "0", ".", "0", SP, "2", "0", "0", SP, "O", "K", CR, LF,
       "c", "o", "n", "t", "e", "n", "t", "-", "l", "e", "n", "g", "t", "h", ":", SP>>
         \o IntToStr(MaxMessageSize) \o BODY_SEPARATOR \o [i \in 1..MaxMessageSize |-> "y"],
     <<"G", "U", "R", "T", "/", "1", ".", "0", ".", "0", SP, "2", "0", "0", SP, "O", "K", CR, LF,
       "c", "o", "n", "t", "e", "n", "t", "-", "l", "e", "n", "g", "t", "h", ":", SP, "1", CR, LF, CR, LF,
       "a", "b">>}

\* the bytes pending at the client after a recv took n of the pending bytes
\* s: a peer that never stops sending has sent more bytes in the meantime
Rest(s, n) ==
    IF IsEndless(s) /\ Len(s) - n < Len(EndlessTail) THEN EndlessTail ELSE Drop(s, n)

\* what the TLS peer may select as the application protocol; <<>> is None
PeerAlpn == {GURT_ALPN, <<"h", "2">>, <<>>}

\* the number of bytes a recv may deliver when avail bytes are pending and
\* the recv asks for at most arg bytes
ChunkSizes(avail, arg) ==
    LET most == IF avail < arg THEN avail ELSE arg
    IN  {n \in 1..most : n <= MaxChunk \/ n = most}

(***************************************************************************)
(* State.                                                                  *)
(***************************************************************************)
VARIABLES
    config,       \* GurtClient.config
    ssl_context,  \* GurtClient._ssl_context
    pc,           \* where the verb call in progress is blocked; "idle",
                  \* "returned" and "raised" are between calls
    call,         \* the arguments of the verb call: verb, url, host, port
    request,      \* the GurtRequest the verb method built
    sock,         \* the socket object of _send_request_internal's local sock:
                  \* "None", "open", "detached" (by wrap_socket) or "closed"
    tls,          \* the SSLSocket object wrap_socket created: "None", "open", "closed"
    tls_sock,     \* whether _send_request_internal's local tls_sock is bound
    timeout,      \* the timeout set on the connection, 0 when there is none
    selected_alpn,\* tls_sock.selected_alpn_protocol()
    stream,       \* bytes the peer has sent that no recv has returned yet
    rd,           \* the local variables of _read_response_data
    response_data,\* what _read_response_data returned in this verb call: to
                  \* _perform_handshake (hs) and to _send_request_internal (resp)
    plainOut,     \* the byte strings written to the plaintext socket
    tlsOut,       \* the byte strings written to the TLS channel
    trace,        \* the phases the verb call has completed, in order
    cnt,          \* how often the verb call did each operation
    origin,       \* the first exception raised in the verb call and its phase
    result,       \* what the last verb call returned or raised
    codec,        \* the message codec under test (CodecSpec)
    peer,         \* what the peer of the running verb call does (ConcurrentSpec)
    parked        \* the verb call of the thread that is not running: its
                  \* local variables and its peer (ConcurrentSpec)

vars == <<config, ssl_context, pc, call, request, sock, tls, tls_sock, timeout,
          selected_alpn, stream, rd, response_data, plainOut, tlsOut, trace, cnt, origin,
          result, codec, peer, parked>>

clientVars == <<config, ssl_context>>

NoExc == Exc("None", <<>>)

NoResponse == NewResponse(0, <<>>)

NoRequest == NewRequest("GET", <<>>, <<>>)

NoCall == [verb |-> "none", url |-> <<>>, host |-> <<>>, port |-> 0]

NoCounts == [connect |-> 0, hs_send |-> 0, wrap |-> 0, req_send |-> 0, fail |-> 0, sockets |-> 0]

NoOrigin == [phase |-> "none", exc |-> NoExc]

NoResult == [kind |-> "none", error |-> NoExc, response |-> NoResponse]

NoData == [hs |-> <<>>, resp |-> <<>>]

CodecIdle == [op |-> "none"]

\* GurtClient.__init__
\* no peer behaviour is fixed in advance
NoPeer == [connect |-> NoExc, hs |-> <<>>, alpn |-> <<>>, resp |-> <<>>, whole |-> TRUE]

\* there is no second thread
NoThread == [pc |-> "none"]

Init ==
    /\ config \in Configs
    /\ ssl_context = CreateSslContext(config)
    /\ pc = "idle"
    /\ call = NoCall
    /\ request = NoRequest
    /\ sock = "None"
    /\ tls = "None"
    /\ tls_sock = FALSE
    /\ timeout = 0
    /\ selected_alpn = <<>>
    /\ stream = <<>>
    /\ rd = NewReader
    /\ response_data = NoData
    /\ plainOut = <<>>
    /\ tlsOut = <<>>
    /\ trace = <<>>
    /\ cnt = NoCounts
    /\ origin = NoOrigin
    /\ result = NoResult
    /\ codec = CodecIdle
    /\ peer = NoPeer
    /\ parked = NoThread

\* a verb call that connects again when the connect failed
AfterFailureRetry(phase) == IF phase = "connect" THEN "connect" ELSE "raised"

\* the pc of a verb call after an exception left _send_request_internal:
\* the call is over, nothing is retried
AfterFailure(phase) == "raised"

\* the finally clause of _send_request_internal: the socket objects after it
FinallySock(s, t, bound) == IF ~bound /\ s = "open" THEN "closed" ELSE s

FinallyTls(s, t, bound) == IF bound THEN "closed" ELSE t

\* exception e raised in the given phase, with the socket objects as they
\* are at the raise, leaves the verb call
Fail(phase, e, s, t, c) ==
    /\ pc' = AfterFailure(phase)
    /\ origin' = IF origin.phase = "none" THEN [phase |-> phase, exc |-> e] ELSE origin
    /\ result' = [kind |-> "error", error |-> Surface(phase, e), response |-> NoResponse]
    /\ cnt' = [c EXCEPT !.fail = @ + 1]
    /\ sock' = FinallySock(s, t, tls_sock)
    /\ tls' = FinallyTls(s, t, tls_sock)
    /\ rd' = NewReader
    /\ stream' = <<>>
    /\ UNCHANGED tls_sock

\* the request of a verb method: GurtClient.get, delete, head, options
\* (Host and User-Agent) and GurtClient.post, put (Content-Type and body too)
BuildRequest(verb, u, body, content_type, cfg) ==
    LET r0 == WithHeader(WithHeader(NewRequest(VerbMethod(verb), u.path, GURT_VERSION),
                                    K_HOST, u.host),
                         K_USER_AGENT_ARG, cfg.user_agent)
    IN  IF verb \in {"post", "put"}
        THEN WithBody(WithHeader(r0, K_CONTENT_TYPE_ARG, content_type), body)
        ELSE r0

\* a verb method that goes on to connect whatever the resolver said
AfterResolveAnyway(ok) == "connect"

\* the pc of a verb call after _parse_gurt_url: its exception leaves the
\* verb method, its return value is used for the request
AfterResolve(ok) == IF ok THEN "connect" ELSE "raised"

\* a verb method of GurtClient up to the connect of _send_request_internal
Call(verb, url, body) ==
    /\ pc = "idle"
    /\ LET u == ParseGurtUrl(url)
       IN  /\ call' = [verb |-> verb, url |-> url,
                       host |-> IF u.ok THEN u.val.host ELSE <<>>,
                       port |-> IF u.ok THEN u.val.port ELSE 0]
           /\ IF u.ok
              THEN /\ request' = BuildRequest(verb, u.val, body, TEXT_PLAIN, config)
                   /\ pc' = AfterResolve(TRUE)
                   /\ UNCHANGED <<result, origin, cnt>>
              ELSE /\ request' = NoRequest
                   /\ pc' = AfterResolve(FALSE)
                   /\ result' = [kind |-> "error", error |-> u.err, response |-> NoResponse]
                   /\ origin' = [phase |-> "resolve", exc |-> u.err]
                   /\ cnt' = [cnt EXCEPT !.fail = @ + 1]
    /\ UNCHANGED <<clientVars, peer, parked, sock, tls, tls_sock, timeout, selected_alpn, stream, rd,
                   response_data, plainOut, tlsOut, trace, codec>>

\* the caller drops what the verb call returned or raised: nothing refers
\* to the objects of the call any more (an SSLSocket still open is closed
\* when it is collected)
Release ==
    /\ pc \in {"returned", "raised"}
    /\ pc' = "idle"
    /\ call' = NoCall
    /\ request' = NoRequest
    /\ sock' = "None"
    /\ tls' = "None"
    /\ tls_sock' = FALSE
    /\ timeout' = 0
    /\ selected_alpn' = <<>>
    /\ stream' = <<>>
    /\ rd' = NewReader
    /\ response_data' = NoData
    /\ plainOut' = <<>>
    /\ tlsOut' = <<>>
    /\ trace' = <<>>
    /\ cnt' = NoCounts
    /\ origin' = NoOrigin
    /\ result' = NoResult
    /\ UNCHANGED <<clientVars, peer, parked, codec>>

\* the exceptions the standard library raises from a blocking operation
SockTimeout == Exc("socket.timeout", <<"timed out">>)

SockError == Exc("OSError", <<"[Errno 104] Connection reset by peer">>)

SslError == Exc("ssl.SSLError", <<"[SSL] error">>)

HostEncodingError == Exc("UnicodeError", <<"encoding with 'idna' codec failed">>)

\* the handshake request of _perform_handshake
HandshakeRequest(host, cfg) ==
    WithHeader(WithHeader(NewRequest("HANDSHAKE", <<"/">>, GURT_VERSION), K_HOST, host),
               K_USER_AGENT_ARG, cfg.user_agent)

\* the caller's request written with sock.sendall
RequestChannelPlain == "plain"

\* which channel _send_request_internal writes the caller's request on
RequestChannel == "tls"

\* a handshake that accepts every decoded response
HandshakeAcceptedAny(resp) == TRUE

\* the status test of _perform_handshake
HandshakeAccepted(resp) == resp.status_code = 101

\* the ALPN test of _perform_handshake
AlpnAccepted(alpn) == alpn = GURT_ALPN

\* _create_connection: socket.create_connection returns or raises e
Connect(e) ==
    /\ pc = "connect"
    /\ IF e = NoExc
       THEN /\ sock' = "open"
            /\ timeout' = config.connection_timeout
            /\ trace' = Append(trace, "connect")
            /\ cnt' = [cnt EXCEPT !.connect = @ + 1, !.sockets = @ + 1]
            /\ pc' = "hs_send"
            /\ UNCHANGED <<tls, tls_sock, origin, result, stream, rd>>
       ELSE /\ Fail("connect", e, sock, tls, [cnt EXCEPT !.connect = @ + 1])
            /\ UNCHANGED <<timeout, trace>>
    /\ UNCHANGED <<clientVars, peer, parked, call, request, selected_alpn, response_data, plainOut, tlsOut, codec>>

\* _perform_handshake: the handshake request is built and written with
\* sock.sendall, which returns or raises e; then settimeout
HandshakeSend(e, answer) ==
    /\ pc = "hs_send"
    /\ IF e = NoExc
       THEN /\ plainOut' = Append(plainOut, RequestToBytes(HandshakeRequest(call.host, config)))
            /\ timeout' = config.handshake_timeout
            /\ trace' = Append(trace, "hs_write")
            /\ stream' = answer
            /\ rd' = NewReader
            /\ cnt' = [cnt EXCEPT !.hs_send = @ + 1]
            /\ pc' = "hs_recv"
            /\ UNCHANGED <<sock, tls, tls_sock, origin, result>>
       ELSE /\ Fail("hs_send", e, sock, tls, [cnt EXCEPT !.hs_send = @ + 1])
            /\ UNCHANGED <<plainOut, timeout, trace>>
    /\ UNCHANGED <<clientVars, peer, parked, call, request, selected_alpn, response_data, tlsOut, codec>>

\* _perform_handshake after _read_response_data returned data: the response
\* is decoded and its status tested
HandshakeDecoded(data) ==
    LET \* p is what GurtResponse.parse returned or raised
        Parsed(p) ==
            IF ~p.ok THEN [ok |-> FALSE, phase |-> "hs_decode", err |-> p.err]
            ELSE IF ~HandshakeAccepted(p.val)
            THEN [ok |-> FALSE, phase |-> "hs_status",
                  err |-> Exc("GurtHandshakeError",
                              <<"Handshake failed: ">> \o IntToStr(p.val.status_code)
                              \o <<SP>> \o p.val.status_message)]
            ELSE [ok |-> TRUE, val |-> p.val]
    IN  Parsed(ResponseParse(data))

\* one sock.recv of the handshake read: it returns chunk (<<>>: the peer
\* closed) or raises e; the code that follows the read runs with the last recv
HandshakeRecv(e, chunk) ==
    /\ pc = "hs_recv"
    /\ LET \* dec is the outcome of the decode and the status test
           Read(dec) ==
               IF ~dec.ok
               THEN /\ Fail(dec.phase, dec.err, sock, tls, cnt)
                    /\ UNCHANGED trace
               ELSE /\ pc' = "wrap"
                    /\ trace' = Append(trace, "hs_101")
                    /\ rd' = NewReader
                    /\ stream' = Rest(stream, Len(chunk))
                    /\ UNCHANGED <<sock, tls, tls_sock, cnt, origin, result>>
           \* step is what the reader does with the chunk
           Received(step) ==
               IF step.st = "raise"
               THEN /\ Fail("hs_recv", step.err, sock, tls, cnt)
                    /\ UNCHANGED <<trace, response_data>>
               ELSE IF step.st = "more"
               THEN /\ rd' = step.rd
                    /\ stream' = Rest(stream, Len(chunk))
                    /\ UNCHANGED <<pc, trace, sock, tls, tls_sock, cnt, origin, result,
                                   response_data>>
               ELSE /\ response_data' = [response_data EXCEPT !.hs = step.ret]
                    /\ Read(HandshakeDecoded(step.ret))
       IN  IF e # NoExc
           THEN /\ Fail("hs_recv", e, sock, tls, cnt)
                /\ UNCHANGED <<trace, response_data>>
           ELSE Received(ReadStep(rd, chunk))
    /\ UNCHANGED <<clientVars, peer, parked, call, request, timeout, selected_alpn, plainOut, tlsOut, codec>>

\* _perform_handshake: ssl_context.wrap_socket returns, having negotiated
\* alpn, or raises e; then the ALPN test.  wrap_socket detaches sock, and
\* closes the SSLSocket it created when its TLS handshake fails.
Wrap(e, alpn) ==
    /\ pc = "wrap"
    /\ IF e # NoExc
       THEN /\ Fail("wrap", e, "detached", "closed", [cnt EXCEPT !.wrap = @ + 1])
            /\ UNCHANGED <<selected_alpn, trace>>
       ELSE IF ~AlpnAccepted(alpn)
       THEN /\ Fail("alpn", Exc("GurtTLSError", <<"ALPN negotiation failed. Expected GURT/1.0, got ">> \o alpn),
                    "detached", "open", [cnt EXCEPT !.wrap = @ + 1])
            /\ selected_alpn' = alpn
            /\ trace' = Append(trace, "tls_wrap")
       ELSE /\ sock' = "detached"
            /\ tls' = "open"
            /\ tls_sock' = TRUE
            /\ selected_alpn' = alpn
            /\ trace' = trace \o <<"tls_wrap", "alpn_ok">>
            /\ cnt' = [cnt EXCEPT !.wrap = @ + 1]
            /\ pc' = "req_send"
            /\ UNCHANGED <<origin, result, stream, rd>>
    /\ UNCHANGED <<clientVars, peer, parked, call, request, timeout, response_data, plainOut, tlsOut, codec>>

\* a request read that goes on under the timeout of the handshake
RequestTimeoutNotSet(cfg) == cfg.handshake_timeout

\* the argument of tls_sock.settimeout in _send_request_internal
RequestTimeout(cfg) == cfg.request_timeout

\* _send_request_internal: the caller's request is encoded and written with
\* sendall, which returns or raises e; then settimeout
RequestSend(e, answer) ==
    /\ pc = "req_send"
    /\ IF e = NoExc
       THEN /\ IF RequestChannel = "tls"
               THEN tlsOut' = Append(tlsOut, RequestToBytes(request)) /\ UNCHANGED plainOut
               ELSE plainOut' = Append(plainOut, RequestToBytes(request)) /\ UNCHANGED tlsOut
            /\ timeout' = RequestTimeout(config)
            /\ trace' = Append(trace, "req_write")
            /\ stream' = answer
            /\ rd' = NewReader
            /\ cnt' = [cnt EXCEPT !.req_send = @ + 1]
            /\ pc' = "resp_recv"
            /\ UNCHANGED <<sock, tls, tls_sock, origin, result>>
       ELSE /\ Fail("req_send", e, sock, tls, [cnt EXCEPT !.req_send = @ + 1])
            /\ UNCHANGED <<plainOut, tlsOut, timeout, trace>>
    /\ UNCHANGED <<clientVars, peer, parked, call, request, selected_alpn, response_data, codec>>

\* one tls_sock.recv of the response read: it returns chunk (<<>>: the peer
\* closed) or raises e; the decode, the return and the finally clause run
\* with the last recv
ResponseRecv(e, chunk) ==
    /\ pc = "resp_recv"
    /\ LET \* p is what GurtResponse.parse returned or raised
           Read(p) ==
               IF ~p.ok
               THEN /\ Fail("resp_decode", p.err, sock, tls, cnt)
                    /\ UNCHANGED trace
               ELSE /\ pc' = "returned"
                    /\ result' = [kind |-> "response", error |-> NoExc, response |-> p.val]
                    /\ trace' = Append(trace, "resp_read")
                    /\ sock' = FinallySock(sock, tls, tls_sock)
                    /\ tls' = FinallyTls(sock, tls, tls_sock)
                    /\ rd' = NewReader
                    /\ stream' = <<>>
                    /\ UNCHANGED <<tls_sock, cnt, origin>>
           \* step is what the reader does with the chunk
           Received(step) ==
               IF step.st = "raise"
               THEN /\ Fail("resp_recv", step.err, sock, tls, cnt)
                    /\ UNCHANGED <<trace, response_data>>
               ELSE IF step.st = "more"
               THEN /\ rd' = step.rd
                    /\ stream' = Rest(stream, Len(chunk))
                    /\ UNCHANGED <<pc, trace, sock, tls, tls_sock, cnt, origin, result,
                                   response_data>>
               ELSE /\ response_data' = [response_data EXCEPT !.resp = step.ret]
                    /\ Read(ResponseParse(step.ret))
       IN  IF e # NoExc
           THEN /\ Fail("resp_recv", e, sock, tls, cnt)
                /\ UNCHANGED <<trace, response_data>>
           ELSE Received(ReadStep(rd, chunk))
    /\ UNCHANGED <<clientVars, peer, parked, call, request, timeout, selected_alpn, plainOut, tlsOut, codec>>

\* what a recv of the reader may return when it does not raise: some of the
\* pending bytes, or nothing when the peer has closed
RecvChunks == {SubSeq(stream, 1, n) : n \in ChunkSizes(Len(stream), RecvArg(rd))} \cup {<<>>}

Next ==
    \/ \E verb \in Verbs, url \in Urls, body \in Bodies : Call(verb, url, body)
    \/ Release
    \/ \E e \in {NoExc, SockTimeout, SockError, HostEncodingError} : Connect(e)
    \/ \E e \in {NoExc, SockTimeout, SockError}, answer \in PeerMessages : HandshakeSend(e, answer)
    \/ \E e \in {SockTimeout, SockError} : HandshakeRecv(e, <<>>)
    \/ \E chunk \in RecvChunks : HandshakeRecv(NoExc, chunk)
    \/ \E e \in {NoExc, SockTimeout, SockError, SslError}, alpn \in PeerAlpn : Wrap(e, alpn)
    \/ \E e \in {NoExc, SockTimeout, SockError, SslError}, answer \in PeerMessages : RequestSend(e, answer)
    \/ \E e \in {SockTimeout, SockError, SslError} : ResponseRecv(e, <<>>)
    \/ \E chunk \in RecvChunks : ResponseRecv(NoExc, chunk)

Spec == Init /\ [][Next]_vars

(***************************************************************************)
(* Properties of the negotiator (Spec).                                    *)
(***************************************************************************)
\* the connections the verb call opened and has not closed
OpenConnections == (IF sock = "open" THEN 1 ELSE 0) + (IF tls = "open" THEN 1 ELSE 0)

FullTrace == <<"connect", "hs_write", "hs_101", "tls_wrap", "alpn_ok", "req_write", "resp_read">>

IsPrefix(a, b) == Len(a) <= Len(b) /\ SubSeq(b, 1, Len(a)) = a

\* the status of a received response as the wire has it: the integer of the
\* second space-separated token of the first line (ok = FALSE when there is none)
WireStatus(data) ==
    LET head == SplitMessage(data)[1]
        parts == SplitMax(SplitAll(Utf8Decode(head), HEADER_SEPARATOR)[1], <<SP>>, 2)
    IN  IF Utf8Valid(head) /\ Len(parts) >= 2 /\ StartsWith(parts[1], PROTOCOL_PREFIX)
        THEN PyInt(parts[2])
        ELSE [ok |-> FALSE, val |-> 0]

NegotiatorKinds == {"GurtConnectionError", "GurtTimeoutError", "GurtTLSError",
                    "GurtHandshakeError", "GurtProtocolError"}

\* C1: the caller's request is written only on the TLS channel and only after
\* connect, the HANDSHAKE request (path "/", headers host and user-agent) on
\* the plaintext socket, a decoded 101 response, the TLS wrap and the ALPN
\* check, in this order; the plaintext socket carries nothing but the handshake
C1_RequestOnlyAfterVerifiedUpgrade ==
    /\ IsPrefix(trace, FullTrace)
    /\ Len(plainOut) <= 1
    /\ \A i \in 1..Len(plainOut) :
          LET h == RequestParse(plainOut[i])
          IN  /\ h.ok
              /\ h.val.method = "HANDSHAKE"
              /\ h.val.path = <<"/">>
              /\ DictGet(h.val.headers, Lower(K_HOST)) = call.host
              /\ DictGet(h.val.headers, K_USER_AGENT) = config.user_agent
    /\ tlsOut # <<>> =>
          /\ tlsOut = <<RequestToBytes(request)>>
          /\ IsPrefix(<<"connect", "hs_write", "hs_101", "tls_wrap", "alpn_ok", "req_write">>, trace)
          /\ Len(plainOut) = 1
          /\ WireStatus(response_data.hs) = [ok |-> TRUE, val |-> 101]
          /\ tls_sock
          /\ selected_alpn = GURT_ALPN

C1_Witness == pc = "resp_recv" /\ tlsOut # <<>> /\ call.verb = "post"

\* C2: a handshake response whose status is an integer other than 101 makes
\* the verb call fail with GurtHandshakeError whose message names that status;
\* the TLS upgrade is not attempted and the caller's request is not sent
C2_Non101IsHandshakeError ==
    LET st == WireStatus(response_data.hs)
    IN  (response_data.hs # <<>> /\ st.ok /\ st.val >= 0 /\ st.val # 101) =>
            /\ pc = "raised"
            /\ result.kind = "error"
            /\ result.error.kind = "GurtHandshakeError"
            /\ Contains(result.error.msg, IntToStr(st.val))
            /\ cnt.wrap = 0
            /\ tls = "None"
            /\ cnt.req_send = 0
            /\ tlsOut = <<>>

C2_Witness ==
    /\ pc = "raised"
    /\ WireStatus(response_data.hs) = [ok |-> TRUE, val |-> 302]
    /\ result.error.kind = "GurtHandshakeError"

\* C3: when the TLS upgrade completes with an ALPN identifier other than the
\* required one, the verb call fails with GurtTLSError, the caller's request
\* is not sent and the connection is closed when the error reaches the caller
C3_AlpnMismatchClosesConnection ==
    (pc = "raised" /\ origin.phase = "alpn") =>
        /\ result.error.kind = "GurtTLSError"
        /\ tlsOut = <<>>
        /\ cnt.req_send = 0
        /\ OpenConnections = 0

\* C4: a verb call opens at most one socket and, when it has returned or
\* raised, every connection it opened is closed
C4_NoOpenConnectionBetweenCalls ==
    /\ cnt.sockets <= 1
    /\ pc \in {"idle", "returned", "raised"} => OpenConnections = 0

\* C5: an exception that is already a GurtError leaves the verb call as it
\* was raised, in the handshake phase as in the application exchange
C5_DefinedKindsKeepTheirKind ==
    (pc = "raised" /\ IsGurtError(origin.exc)) => result.error = origin.exc

\* C6: every failure of a negotiator phase reaches the caller as
\* GurtConnectionError, GurtTimeoutError, GurtTLSError, GurtHandshakeError or
\* GurtProtocolError
C6_OnlyGurtErrorsEscape ==
    (pc = "raised" /\ origin.phase \in ConnectPhases \cup HandshakePhases \cup ExchangePhases) =>
        /\ result.kind = "error"
        /\ result.error.kind \in NegotiatorKinds

C6_Witness ==
    /\ pc = "raised"
    /\ origin.phase = "req_send"
    /\ origin.exc.kind = "OSError"
    /\ result.error.kind = "GurtConnectionError"

\* C7: a timeout of any blocking operation surfaces as GurtTimeoutError, ends
\* the verb call and leaves the connection closed; a refused connect surfaces
\* as GurtConnectionError
C7_TimeoutIsTimeoutError ==
    /\ origin.exc.kind = "socket.timeout" =>
          /\ pc = "raised"
          /\ result.error.kind = "GurtTimeoutError"
          /\ OpenConnections = 0
          /\ cnt.fail = 1
    /\ (origin.phase = "connect" /\ origin.exc = SockError) =>
          /\ pc = "raised"
          /\ result.error.kind = "GurtConnectionError"

C7_Witness ==
    /\ pc = "raised"
    /\ origin.phase = "connect"
    /\ origin.exc.kind = "socket.timeout"
    /\ result.error.kind = "GurtTimeoutError"

\* C8: a verb call connects, writes the handshake, wraps and writes the
\* request at most once each, and its first failure ends it
C8_EachPhaseAtMostOnce ==
    /\ cnt.connect <= 1
    /\ cnt.hs_send <= 1
    /\ cnt.wrap <= 1
    /\ cnt.req_send <= 1
    /\ cnt.fail <= 1
    /\ cnt.sockets <= cnt.connect
    /\ Len(plainOut) <= cnt.hs_send
    /\ Len(tlsOut) <= cnt.req_send
    /\ cnt.fail >= 1 => pc = "raised"

C8_Witness == pc = "raised" /\ cnt.fail = 1 /\ cnt.connect = 1 /\ origin.phase = "connect"

(***************************************************************************)
(* The message codec on its own (CodecSpec): a caller builds a GurtRequest *)
(* or a GurtResponse, encodes it with to_bytes and decodes the bytes with  *)
(* parse.                                                                  *)
(***************************************************************************)
\* the largest number of with_header calls on one message
MaxHeaders == 2

CodecPaths == {<<"/", "a">>, <<"/", "a", SP, "b">>, <<>>}

CodecVersions == {GURT_VERSION, <<"1", SP, "0">>}

\* the arguments of with_header
CodecHeaderArgs ==
    {<<K_HOST, <<"h">>>>,
     <<K_CONTENT_LENGTH, <<"7">>>>,
     <<<<"A">>, <<SP, "b">>>>,
     <<<<"a">>, <<"b", CR, LF, "c">>>>,
     <<<<"a", ":", "b">>, <<"c">>>>}

\* the arguments of with_body: a str, or bytes
CodecBodies ==
    {[str |-> TRUE, val |-> <<"U+E9">>],
     [str |-> FALSE, val |-> <<"0xFF">>],
     [str |-> FALSE, val |-> <<CR, LF, CR, LF, "x">>]}

CodecStatusCodes == {200, 404, 503}

\* status messages a caller assigns
CodecMessages == {<<"N", "o", SP, "S", "u", "c", "h", SP, "P", "a", "g", "e">>,
                  <<"O", "K">>,
                  <<"a", CR, LF, "b">>}

\* datetime.now(timezone.utc).strftime('%a, %d %b %Y %H:%M:%S GMT')
CodecNows == {<<"S", "u", "n", ",", SP, "0", "1", SP, "N", "o", "v", SP, "2", "0", "2", "6", SP,
                "1", "4", ":", "0", "0", ":", "0", "0", SP, "G", "M", "T">>}

\* no status code has been classified
NoClass == [code |-> 0, is_success |-> FALSE, is_client_error |-> FALSE, is_server_error |-> FALSE]

\* the arguments of with_json_body
CodecJson == {[t |-> "str", s |-> <<"U+E9", "\"">>]}

\* the keys a caller looks up with get_header
CodecLookups == {<<"H", "O", "S", "T">>}

\* get_header has not been called
NoLookup == [key |-> <<>>, some |-> FALSE, val |-> <<>>]

\* the record of insertions: the key as the caller wrote it and the value of
\* the latest insertion, for each key up to case
Inserted(last, key, value) == {e \in last : Lower(e[1]) # Lower(key)} \cup {<<key, value>>}

\* a message under construction: n counts the with_header calls, explicit
\* says whether the caller assigned status_message; last is the record of
\* the insertions into its headers, got the outcome of a get_header, sent
\* the to_bytes calls on a message that stays in use
CodecBuilt(op, msg) ==
    [op |-> op, stage |-> "built", msg |-> msg, n |-> 0, explicit |-> FALSE,
     now |-> <<>>, wire |-> <<>>, parsed |-> Raise(NoExc), raw |-> FALSE, class |-> NoClass,
     last |-> {}, got |-> NoLookup, sent |-> <<>>]

\* buffers a caller hands to parse as they came from a peer
CodecWires ==
    {<<"I", "N", "V", "A", "L", "I", "D", SP, "R", "E", "Q", "U", "E", "S", "T">>,
     <<>>,
     <<"g", "e", "t", SP, "/", "a", SP, "G", "U", "R", "T", "/", "1", ".", "0", ".", "0", CR, LF, CR,
       LF>>,
     <<"G", "E", "T", SP, "/", "t", "e", "s", "t", SP, "H", "T", "T", "P", "/", "1", ".", "1", CR,
       LF, CR, LF>>,
     <<"G", "E", "T", SP, "/", "a", SP, "G", "U", "R", "T", "/", "1", ".", "0", ".", "0", CR, LF,
       "H", "o", "s", "t", ":", SP, "h", CR, LF, "H", "O", "S", "T", SP, ":", SP, "H", "2", CR, LF, CR,
       LF, "b", "o", "d", "y">>,
     <<"0xFF", SP, "/", "a", SP, "G", "U", "R", "T", "/", "1", ".", "0", ".", "0", CR, LF, CR, LF>>,
     <<"G", "U", "R", "T", "/", "1", ".", "0", ".", "0", SP, "2", "0", "0", CR, LF, CR, LF>>,
     <<"G", "U", "R", "T", "/", "1", ".", "0", ".", "0", SP, "4", "0", "4", SP, "G", "o", "n", "e",
       SP, "A", "w", "a", "y", CR, LF, "X", "-", "A", ":", SP, "1", CR, LF, "x", "-", "a", ":", "2",
       CR, LF, CR, LF>>,
     <<"G", "U", "R", "T", "/", "1", ".", "0", ".", "0", SP, "2", "9", "9", SP, "X", CR, LF, CR, LF>>,
     <<"G", "U", "R", "T", "/", "1", ".", "0", ".", "0", SP, "a", "b", "c", CR, LF, CR, LF>>,
     <<"H", "T", "T", "P", "/", "1", ".", "1", SP, "2", "0", "0", SP, "O", "K", CR, LF, CR, LF>>,
     <<"G", "U", "R", "T", "/", "1", ".", "0", ".", "0", SP, "0xFF", SP, "O", "K", CR, LF, CR, LF>>,
     <<"G", "U", "R", "T", "/", "1", ".", "0", ".", "0", SP, "+", "2", "0", "0", SP, CR, LF, CR, LF>>,
     <<"G", "U", "R", "T", "/", "1", ".", "0", ".", "0", SP, "1", "0", "1", SP, SP, "U", "p", SP, CR,
       LF, CR, LF>>,
     <<"G", "U", "R", "T", "/", "1", ".", "0", ".", "0">>}

\* a caller is about to decode data with the parse of the class op names:
\* there is no message that data was encoded from
CodecReceived(op, data) ==
    [op |-> op, stage |-> "encoded", msg |-> IF op = "request" THEN NoRequest ELSE NoResponse,
     n |-> 0, explicit |-> FALSE, now |-> <<>>, wire |-> data, parsed |-> Raise(NoExc),
     raw |-> TRUE, class |-> NoClass, last |-> {}, got |-> NoLookup, sent |-> <<>>]

\* data arrives for GurtRequest.parse or GurtResponse.parse
CodecReceive(op, data) ==
    /\ codec.op = "none"
    /\ codec' = CodecReceived(op, data)
    /\ UNCHANGED <<clientVars, peer, parked, pc, call, request, sock, tls, tls_sock, timeout, selected_alpn,
                   stream, rd, response_data, plainOut, tlsOut, trace, cnt, origin, result>>

\* is_success(), is_client_error() and is_server_error() of the member
\* status_code of GurtStatusCode
CodecClassify(status_code) ==
    /\ codec.op = "none"
    /\ codec' = [CodecBuilt("status", NoResponse) EXCEPT
                    !.stage = "classified",
                    !.class = [code |-> status_code,
                               is_success |-> IsSuccess(status_code),
                               is_client_error |-> IsClientError(status_code),
                               is_server_error |-> IsServerError(status_code)]]
    /\ UNCHANGED <<clientVars, peer, parked, pc, call, request, sock, tls, tls_sock, timeout, selected_alpn,
                   stream, rd, response_data, plainOut, tlsOut, trace, cnt, origin, result>>

\* GurtRequest(method, path, version)
CodecNewRequest(method, path, version) ==
    /\ codec.op = "none"
    /\ codec' = CodecBuilt("request", NewRequest(method, path, version))
    /\ UNCHANGED <<clientVars, peer, parked, pc, call, request, sock, tls, tls_sock, timeout, selected_alpn,
                   stream, rd, response_data, plainOut, tlsOut, trace, cnt, origin, result>>

\* GurtResponse(status_code, version)
CodecNewResponse(status_code, version) ==
    /\ codec.op = "none"
    /\ codec' = CodecBuilt("response", NewResponse(status_code, version))
    /\ UNCHANGED <<clientVars, peer, parked, pc, call, request, sock, tls, tls_sock, timeout, selected_alpn,
                   stream, rd, response_data, plainOut, tlsOut, trace, cnt, origin, result>>

\* with_header(key, value) of either message
CodecWithHeader(key, value) ==
    /\ codec.op # "none"
    /\ codec.stage = "built"
    /\ codec.n < MaxHeaders
    /\ codec' = [codec EXCEPT !.msg = WithHeader(@, key, value), !.n = @ + 1,
                              !.last = Inserted(@, key, value)]
    /\ UNCHANGED <<clientVars, peer, parked, pc, call, request, sock, tls, tls_sock, timeout, selected_alpn,
                   stream, rd, response_data, plainOut, tlsOut, trace, cnt, origin, result>>

\* with_body(body) of either message
CodecWithBody(body) ==
    /\ codec.op # "none"
    /\ codec.stage = "built"
    /\ codec' = [codec EXCEPT !.msg = IF body.str THEN WithBody(@, body.val)
                                       ELSE [@ EXCEPT !.body = body.val]]
    /\ UNCHANGED <<clientVars, peer, parked, pc, call, request, sock, tls, tls_sock, timeout, selected_alpn,
                   stream, rd, response_data, plainOut, tlsOut, trace, cnt, origin, result>>

\* with_json_body(data) of a response
CodecWithJsonBody(data) ==
    /\ codec.op = "response"
    /\ codec.stage = "built"
    /\ codec' = [codec EXCEPT !.msg = WithJsonBody(@, data),
                              !.last = Inserted(@, K_CONTENT_TYPE, APPLICATION_JSON)]
    /\ UNCHANGED <<clientVars, peer, parked, pc, call, request, sock, tls, tls_sock, timeout, selected_alpn,
                   stream, rd, response_data, plainOut, tlsOut, trace, cnt, origin, result>>

\* get_header(key) of the message under construction, or of the message
\* parse returned
CodecGetHeader(key) ==
    /\ codec.op \in {"request", "response"}
    /\ \/ codec.stage = "built"
       \/ codec.stage = "decoded" /\ codec.parsed.ok
    /\ codec' = [codec EXCEPT
                    !.stage = IF @ = "built" THEN "built_got" ELSE "decoded_got",
                    !.got = [key |-> key] @@ GetHeader(IF codec.stage = "built" THEN codec.msg
                                                      ELSE codec.parsed.val, key)]
    /\ UNCHANGED <<clientVars, peer, parked, pc, call, request, sock, tls, tls_sock, timeout, selected_alpn,
                   stream, rd, response_data, plainOut, tlsOut, trace, cnt, origin, result>>

\* the caller assigns GurtResponse.status_message
CodecSetStatusMessage(m) ==
    /\ codec.op = "response"
    /\ codec.stage = "built"
    /\ codec' = [codec EXCEPT !.msg.status_message = m, !.explicit = TRUE]
    /\ UNCHANGED <<clientVars, peer, parked, pc, call, request, sock, tls, tls_sock, timeout, selected_alpn,
                   stream, rd, response_data, plainOut, tlsOut, trace, cnt, origin, result>>

\* to_bytes of the message; now is the time GurtResponse.to_bytes reads
CodecToBytes(now) ==
    /\ codec.op # "none"
    /\ codec.stage = "built"
    /\ codec' = [codec EXCEPT !.stage = "encoded",
                              !.now = now,
                              !.wire = IF codec.op = "request"
                                       THEN RequestToBytes(codec.msg)
                                       ELSE ResponseToBytes(codec.msg, now)]
    /\ UNCHANGED <<clientVars, peer, parked, pc, call, request, sock, tls, tls_sock, timeout, selected_alpn,
                   stream, rd, response_data, plainOut, tlsOut, trace, cnt, origin, result>>

\* parse of the bytes to_bytes returned, by the class of the message
CodecParse ==
    /\ codec.op # "none"
    /\ codec.stage = "encoded"
    /\ codec' = [codec EXCEPT !.stage = "decoded",
                              !.parsed = IF codec.op = "request"
                                         THEN RequestParse(codec.wire)
                                         ELSE ResponseParse(codec.wire)]
    /\ UNCHANGED <<clientVars, peer, parked, pc, call, request, sock, tls, tls_sock, timeout, selected_alpn,
                   stream, rd, response_data, plainOut, tlsOut, trace, cnt, origin, result>>

CodecNext ==
    \/ \E method \in Methods, path \in CodecPaths, version \in CodecVersions :
          CodecNewRequest(method, path, version)
    \/ \E status_code \in CodecStatusCodes, version \in CodecVersions :
          CodecNewResponse(status_code, version)
    \/ \E kv \in CodecHeaderArgs : CodecWithHeader(kv[1], kv[2])
    \/ \E body \in CodecBodies : CodecWithBody(body)
    \/ \E data \in CodecJson : CodecWithJsonBody(data)
    \/ \E key \in CodecLookups : CodecGetHeader(key)
    \/ \E m \in CodecMessages : CodecSetStatusMessage(m)
    \/ \E now \in CodecNows : CodecToBytes(now)
    \/ \E op \in {"request", "response"}, data \in CodecWires : CodecReceive(op, data)
    \/ \E status_code \in StatusCodes : CodecClassify(status_code)
    \/ CodecParse

CodecSpec == Init /\ [][CodecNext]_vars

(***************************************************************************)
(* Properties of the codec (CodecSpec).                                    *)
(***************************************************************************)
\* a header key that a header line carries unchanged: lower-case, without a
\* colon or a line break, without whitespace at its ends
CleanKey(k) ==
    /\ k = Lower(k)
    /\ ~Contains(k, <<":">>)
    /\ ~Contains(k, HEADER_SEPARATOR)
    /\ Strip(k) = k

\* a header value that a header line carries unchanged
CleanValue(v) == ~Contains(v, HEADER_SEPARATOR) /\ Strip(v) = v

CleanHeaders(h) == \A i \in 1..Len(h) : CleanKey(h[i][1]) /\ CleanValue(h[i][2])

\* a text without whitespace
IsToken(t) == \A i \in 1..Len(t) : ~IsWS(t[i])

\* the headers of a message as a set, the keys in lower case
LowerItems(h) == {<<Lower(h[i][1]), h[i][2]>> : i \in 1..Len(h)}

\* the headers of message m and, for each key of defaults that m does not
\* set, the default
WithDefaults(m, defaults) ==
    DictItems(m.headers) \cup {d \in defaults : ~DictHas(m.headers, d[1])}

RequestDefaults(r) ==
    {<<K_CONTENT_LENGTH, IntToStr(Len(r.body))>>, <<K_USER_AGENT, DEFAULT_USER_AGENT>>}

ResponseDefaults(r, now) ==
    {<<K_CONTENT_LENGTH, IntToStr(Len(r.body))>>, <<K_SERVER, DEFAULT_SERVER>>, <<K_DATE, now>>}

RequestDecoded == codec.op = "request" /\ codec.stage = "decoded" /\ ~codec.raw

ResponseDecoded ==
    codec.op = "response" /\ codec.stage = "decoded" /\ ~codec.raw /\ codec.explicit

\* C9 as stated: decoding an encoded request succeeds and gives back the
\* method, the path, the version, the header set (keys compared without
\* case) and the body bytes of the request, whatever the request is
C9_RoundTripOfAnyRequest ==
    RequestDecoded =>
        /\ codec.parsed.ok
        /\ codec.parsed.val.method = codec.msg.method
        /\ codec.parsed.val.path = codec.msg.path
        /\ codec.parsed.val.version = codec.msg.version
        /\ LowerItems(codec.parsed.val.headers) = LowerItems(codec.msg.headers)
        /\ codec.parsed.val.body = codec.msg.body

\* C9 amended: when the path is a non-empty text without whitespace, the
\* version a text without whitespace, and every header key and value is
\* carried unchanged by a header line, decoding the encoded request succeeds
\* and gives back the method, the path, the version and the body bytes, and
\* the headers of the request together with the content-length and
\* user-agent that to_bytes adds when the request does not set them
C9_RoundTripOfTokenRequests ==
    (/\ RequestDecoded
     /\ codec.msg.path # <<>>
     /\ IsToken(codec.msg.path)
     /\ IsToken(codec.msg.version)
     /\ CleanHeaders(codec.msg.headers)) =>
        /\ codec.parsed.ok
        /\ codec.parsed.val.method = codec.msg.method
        /\ codec.parsed.val.path = codec.msg.path
        /\ codec.parsed.val.version = codec.msg.version
        /\ DictItems(codec.parsed.val.headers) = WithDefaults(codec.msg, RequestDefaults(codec.msg))
        /\ Len(codec.parsed.val.headers) = Cardinality(DictKeys(codec.parsed.val.headers))
        /\ codec.parsed.val.body = codec.msg.body

C9_Witness ==
    /\ RequestDecoded
    /\ codec.msg.path # <<>>
    /\ IsToken(codec.msg.path)
    /\ IsToken(codec.msg.version)
    /\ CleanHeaders(codec.msg.headers)
    /\ codec.msg.method = "POST"
    /\ DictGet(codec.msg.headers, Lower(K_HOST)) = <<"h">>
    /\ DictGet(codec.msg.headers, K_CONTENT_LENGTH) = <<"7">>
    /\ codec.msg.body = <<"0xC3", "0xA9">>
    /\ codec.parsed.ok
    /\ DictGet(codec.parsed.val.headers, K_USER_AGENT) = DEFAULT_USER_AGENT

\* C10 as stated: decoding an encoded response whose status message the
\* caller set succeeds and gives back the status code, that message, the
\* header set and the body bytes of the response
C10_RoundTripOfAnyResponse ==
    ResponseDecoded =>
        /\ codec.parsed.ok
        /\ codec.parsed.val.status_code = codec.msg.status_code
        /\ codec.parsed.val.status_message = codec.msg.status_message
        /\ DictItems(codec.parsed.val.headers) = DictItems(codec.msg.headers)
        /\ codec.parsed.val.body = codec.msg.body

\* C10 amended: when the version has no space and no line break, the status
\* message the caller set has no line break (it may have spaces), and every
\* header key and value is carried unchanged by a header line, decoding the
\* encoded response succeeds and gives back the status code, that message
\* and the body bytes, and the headers of the response together with the
\* content-length, server and date that to_bytes adds when the response does
\* not set them
C10_RoundTripOfLineResponses ==
    (/\ ResponseDecoded
     /\ ~Contains(codec.msg.version, <<SP>>)
     /\ ~Contains(codec.msg.version, HEADER_SEPARATOR)
     /\ ~Contains(codec.msg.status_message, HEADER_SEPARATOR)
     /\ CleanHeaders(codec.msg.headers)) =>
        /\ codec.parsed.ok
        /\ codec.parsed.val.status_code = codec.msg.status_code
        /\ codec.parsed.val.status_message = codec.msg.status_message
        /\ DictItems(codec.parsed.val.headers)
               = WithDefaults(codec.msg, ResponseDefaults(codec.msg, codec.now))
        /\ Len(codec.parsed.val.headers) = Cardinality(DictKeys(codec.parsed.val.headers))
        /\ codec.parsed.val.body = codec.msg.body

C10_Witness ==
    /\ ResponseDecoded
    /\ ~Contains(codec.msg.version, <<SP>>)
    /\ CleanHeaders(codec.msg.headers)
    /\ codec.msg.status_code = 404
    /\ Contains(codec.msg.status_message, <<SP>>)
    /\ ~Contains(codec.msg.status_message, HEADER_SEPARATOR)
    /\ DictGet(codec.msg.headers, Lower(K_HOST)) = <<"h">>
    /\ codec.msg.body = <<CR, LF, CR, LF, "x">>
    /\ codec.parsed.ok
    /\ codec.parsed.val.status_message = codec.msg.status_message

(***************************************************************************)
(* Properties of the framed reader (Spec).                                 *)
(***************************************************************************)
\* the messages _read_response_data has returned in the verb call
Returned == {response_data.hs, response_data.resp} \ {<<>>}

\* the index of the last byte of the header terminator of m
HeaderEnd(m) == Find(m, BODY_SEPARATOR) + Len(BODY_SEPARATOR) - 1

\* what follows the header terminator in m
FrameBody(m) == Drop(m, HeaderEnd(m))

\* the content-length the header block of m declares: the integer of its
\* first content-length line, 0 when there is none or it is not an integer
Declared(m) == ContentLength(Utf8Decode(SubSeq(m, 1, HeaderEnd(m))))

\* C11: what the reader returns has the header terminator and at least the
\* declared content-length of body bytes, and the reader has not returned
\* while it still waits for the terminator or for body bytes
C11_ReaderNeverReturnsEarly ==
    /\ \A m \in Returned :
          /\ Contains(m, BODY_SEPARATOR)
          /\ Len(FrameBody(m)) >= Declared(m)
    /\ pc = "hs_recv" => response_data.hs = <<>>
    /\ pc = "resp_recv" => response_data.resp = <<>>
    /\ (pc \in {"hs_recv", "resp_recv"} /\ rd.inBody) =>
          /\ Contains(rd.data, BODY_SEPARATOR)
          /\ Len(rd.body_data) < rd.content_length
    /\ (pc \in {"hs_recv", "resp_recv"} /\ ~rd.inBody) => ~Contains(rd.data, BODY_SEPARATOR)

C11_Witness ==
    /\ pc = "returned"
    /\ Declared(response_data.resp) = 2
    /\ FrameBody(response_data.resp) = <<"h", "i">>
    /\ Declared(response_data.hs) = 1
    /\ FrameBody(response_data.hs) = <<".">>

\* C12: a message the reader returns is at most the maximum message size long
C12_ReturnedWithinMaximum == \A m \in Returned : Len(m) <= MaxMessageSize

\* C13: the body part of a message the reader returns is exactly as long as
\* the declared content-length: no byte after the frame is in it
C13_ExactlyOneFrame == \A m \in Returned : Len(FrameBody(m)) = Declared(m)

(***************************************************************************)
(* The URL resolver on its own (ResolverSpec): the verb methods up to the  *)
(* connect, on URLs written from their components.                         *)
(***************************************************************************)
\* the components a URL is written from; port and query are there only when
\* hasPort and hasQuery say so
UrlParts ==
    [host : {<<"h">>, <<"E", "x", ".", "i", "o">>},
     hasPort : BOOLEAN,
     port : {<<"8", "0">>, <<"0">>, <<"6", "5", "5", "3", "5">>},
     path : {<<>>, <<"/">>, <<"/", "a", "/", "b">>},
     hasQuery : BOOLEAN,
     query : {<<"q", "=", "1">>}]

\* the URL of scheme gurt:// with the given components
UrlText(p) ==
    SCHEME \o p.host \o (IF p.hasPort THEN <<":">> \o p.port ELSE <<>>) \o p.path
    \o (IF p.hasQuery THEN <<"?">> \o p.query ELSE <<>>)

\* addresses that are not a gurt:// URL with a host and a port number
BadUrls ==
    {<<"h", "t", "t", "p", ":", "/", "/", "h", "/">>,
     <<"h", "t", "t", "p", "s", ":", "/", "/", "h", "/">>,
     <<"g", "u", "r", "t", ":", "/", "/", "/", "p", "a", "t", "h">>,
     <<"g", "u", "r", "t", ":", "/", "/", "h", ":", "x", "/">>,
     <<"g", "u", "r", "t", ":", "/", "/", "h", ":", "9", "9", "9", "9", "9", "/">>,
     <<>>}

ResolverUrls == {UrlText(p) : p \in UrlParts} \cup BadUrls

ResolverNext ==
    \/ \E verb \in Verbs, url \in ResolverUrls, body \in Bodies : Call(verb, url, body)
    \/ Release

ResolverSpec == Init /\ [][ResolverNext]_vars

(***************************************************************************)
(* Properties of the URL resolver (ResolverSpec).                          *)
(***************************************************************************)
\* the verb call has resolved its URL, or failed to
Resolved == call.verb # "none"

ResolveFailed == pc = "raised" /\ origin.phase = "resolve"

\* C14: a gurt:// URL with a host resolves to its hostname, to its port when
\* it has one and to 4878 when it has none, and to its path ("/" when it
\* has none) followed by "?" and the query when it has a query
C14_ResolvesToComponents ==
    \A p \in UrlParts :
        (Resolved /\ call.url = UrlText(p)) =>
            /\ ~ResolveFailed
            /\ call.host = Lower(p.host)
            /\ call.port = IF p.hasPort THEN DigitsVal(p.port) ELSE DEFAULT_PORT
            /\ request.path = (IF p.path = <<>> THEN <<"/">> ELSE p.path)
                              \o (IF p.hasQuery THEN <<"?">> \o p.query ELSE <<>>)

\* C15: an address that does not resolve fails with the URL error (GurtError
\* itself), whatever is wrong with it
C15_ResolveFailsWithUrlError ==
    ResolveFailed => result.error.kind = "GurtError"

(***************************************************************************)
(* Properties of decoding (CodecSpec).                                     *)
(***************************************************************************)
\* the bytes of the first line of a buffer
FirstLine(data) == SplitAll(SplitMessage(data)[1], HEADER_SEPARATOR)[1]

RequestParsed == codec.op = "request" /\ codec.stage = "decoded"

ResponseParsed == codec.op = "response" /\ codec.stage = "decoded"

\* parse has raised GurtProtocolError with message msg
ProtocolErrorOf(msg) ==
    ~codec.parsed.ok /\ codec.parsed.err = Exc("GurtProtocolError", msg)

\* C16: decoding a request whose first line is not three whitespace-separated
\* tokens, whose method token is not one of the eight method tokens, or whose
\* third token lacks the prefix GURT/ fails with ProtocolError, with a message
\* of its own for each of the three causes
C16_MalformedRequestLineIsProtocolError ==
    LET Line(parts) ==
            /\ Len(parts) # 3 => ProtocolErrorOf(<<"Invalid request line format">>)
            /\ (Len(parts) = 3 /\ \A m \in Methods : GurtMethod[m] # parts[1]) =>
                  ProtocolErrorOf(<<"Unsupported method: ">> \o parts[1])
            /\ (/\ Len(parts) = 3
                /\ \E m \in Methods : GurtMethod[m] = parts[1]
                /\ ~StartsWith(parts[3], PROTOCOL_PREFIX)) =>
                  ProtocolErrorOf(<<"Invalid protocol identifier">>)
    IN  RequestParsed => Line(SplitWS(FirstLine(codec.wire)))

\* the decimal forms of the registered status codes
StatusTokens == {IntToStr(c) : c \in StatusCodes}

\* C17: decoding a response gives a Response only when the first token of the
\* status line has the prefix GURT/ and the second is the decimal form of a
\* registered status code; with the prefix and any other second token it
\* fails with ProtocolError; a failed decode returns no Response
C17_ResponseOnlyForRegisteredStatus ==
    LET Line(parts) ==
            /\ codec.parsed.ok =>
                  /\ Len(parts) >= 2
                  /\ StartsWith(parts[1], PROTOCOL_PREFIX)
                  /\ parts[2] \in StatusTokens
            /\ (/\ Len(parts) >= 2
                /\ StartsWith(parts[1], PROTOCOL_PREFIX)
                /\ parts[2] \notin StatusTokens) =>
                  ProtocolErrorOf(<<"Invalid status code: ">> \o parts[2])
            /\ ~codec.parsed.ok => DOMAIN codec.parsed = {"ok", "err"}
    IN  ResponseParsed => Line(SplitMax(FirstLine(codec.wire), <<SP>>, 2))

\* the places of the spaces of a status line
Spaces(line) == {i \in 1..Len(line) : line[i] = SP}

\* what follows the second space of a status line that has two
AfterSecondSpace(line) ==
    Drop(line, CHOOSE i \in Spaces(line) : Cardinality({j \in Spaces(line) : j < i}) = 1)

\* C18: the status_message of a decoded response is the text after the status
\* code on the status line when the line has a third token, spaces included
\* and whatever the registry says, and the registry's message of the status
\* code when the line has two tokens; the registry has a message, which is
\* not "UNKNOWN", for every status code
C18_WireMessageTakesPrecedence ==
    LET Message(line, r) ==
            r.status_message = IF Cardinality(Spaces(line)) >= 2 THEN AfterSecondSpace(line)
                               ELSE STATUS_MESSAGES(r.status_code)
    IN  /\ \A c \in StatusCodes :
              c \in StatusMessageCodes /\ StatusMessage(c) # <<"U", "N", "K", "N", "O", "W", "N">>
        /\ (ResponseParsed /\ codec.parsed.ok) =>
              Message(Utf8Decode(FirstLine(codec.wire)), codec.parsed.val)

\* the status line "GURT/1.0.0 404 Gone Away" has been decoded
C18_Witness ==
    /\ ResponseParsed
    /\ codec.raw
    /\ codec.parsed.ok
    /\ codec.parsed.val.status_code = 404
    /\ codec.parsed.val.status_message = <<"G", "o", "n", "e", SP, "A", "w", "a", "y">>
    /\ codec.parsed.val.status_message # StatusMessage(404)

(***************************************************************************)
(* Properties of the status codes (CodecSpec).                             *)
(***************************************************************************)
Classified == codec.op = "status" /\ codec.stage = "classified"

\* how many of the three classes a classified code is in
ClassCount(k) ==
    (IF k.is_success THEN 1 ELSE 0) + (IF k.is_client_error THEN 1 ELSE 0)
    + (IF k.is_server_error THEN 1 ELSE 0)

\* C19: for a status code c of the closed set, is_success is c in {200, 201,
\* 202, 204}, is_client_error is 400 <= c < 500, is_server_error is
\* 500 <= c < 600, at most one of the three holds, and none holds for 101
C19_ClassificationByValue ==
    LET Class(k) ==
            /\ k.code \in StatusCodes
            /\ k.is_success <=> k.code \in {200, 201, 202, 204}
            /\ k.is_client_error <=> k.code \in 400..499
            /\ k.is_server_error <=> k.code \in 500..599
            /\ ClassCount(k) <= 1
            /\ k.code = 101 => ClassCount(k) = 0
    IN  Classified => Class(codec.class)

\* 503 has been classified: a server error, not a client error
C19_Witness ==
    /\ Classified
    /\ codec.class.code = 503
    /\ codec.class.is_server_error
    /\ ~codec.class.is_client_error
    /\ ~codec.class.is_success

(***************************************************************************)
(* Properties of the header map (CodecSpec).                               *)
(***************************************************************************)
UpperOf == [c \in Range(LowerChars) |-> UpperChars[CHOOSE i \in 1..26 : LowerChars[i] = c]]

UpperChar(c) == IF c \in DOMAIN UpperOf THEN UpperOf[c] ELSE c

UpperCase(s) == [i \in 1..Len(s) |-> UpperChar(s[i])]

\* the keys to look up: the given keys in the case they were written in, in
\* lower case and in upper case, and a key that is none of them
Probes(keys) == UNION {{k, Lower(k), UpperCase(k)} : k \in keys} \cup {<<"z", "z">>}

\* what get_header returns for a value, and for nothing
Some(v) == [some |-> TRUE, val |-> v]

Nothing == [some |-> FALSE, val |-> <<>>]

\* every key is in lower case and no two keys differ only by case
NormalKeys(h) ==
    /\ \A i \in 1..Len(h) : h[i][1] = Lower(h[i][1])
    /\ \A i, j \in 1..Len(h) : Lower(h[i][1]) = Lower(h[j][1]) => i = j

\* the header lines of a buffer that parse inserts: the lines after the
\* first one and before the first blank one that have a colon
WireLines(data) == Tail(SplitAll(Utf8Decode(SplitMessage(data)[1]), HEADER_SEPARATOR))

BlankLines(ls) == {i \in 1..Len(ls) : \A c \in 1..Len(ls[i]) : IsWS(ls[i][c])}

InsertingLines(ls) ==
    {i \in 1..Len(ls) : /\ \E c \in 1..Len(ls[i]) : ls[i][c] = ":"
                        /\ \A j \in BlankLines(ls) : i < j}

Colon(l) == CHOOSE c \in 1..Len(l) : l[c] = ":" /\ \A b \in 1..(c - 1) : l[b] # ":"

\* the insertion of line l, the i-th: its place, its key, its value
LineInsertion(i, l) ==
    <<i, Strip(SubSeq(l, 1, Colon(l) - 1)), Strip(SubSeq(l, Colon(l) + 1, Len(l)))>>

\* the record of the insertions of a message under construction as
\* insertions: one for each key up to case, the place does not matter
RecordInsertions(last) == {<<0, e[1], e[2]>> : e \in last}

\* insertions with their keys in lower case
LowerInsertions(ins) == {<<e[1], Lower(e[2]), e[3]>> : e \in ins}

\* the insertions parse makes for the header lines ls
Insertions(ls) == {LineInsertion(i, ls[i]) : i \in InsertingLines(ls)}

\* the value of the latest of the insertions hits
Latest(hits) ==
    IF hits = {} THEN Nothing
    ELSE Some((CHOOSE e \in hits : \A f \in hits : f[1] <= e[1])[3])

\* what the latest of the insertions under a case variant of a key has put:
\* low is the insertions with their keys in lower case, lk the key in lower
\* case
Expected(low, lk) == Latest({e \in low : e[2] = lk})

HeadersBuilt == codec.op \in {"request", "response"} /\ codec.stage \in {"built", "built_got"}

HeadersDecoded ==
    /\ codec.op \in {"request", "response"}
    /\ codec.stage \in {"decoded", "decoded_got"}
    /\ codec.parsed.ok

\* C20: after with_header, with_json_body and parse the keys of the header
\* map are in lower case and no two differ only by case; get_header(k)
\* returns the value of the latest insertion under a case variant of k, and
\* nothing when there was none
C20_HeaderKeysCaseInsensitive ==
    LET Lookups(m, ins, low, stage) ==
            /\ NormalKeys(m.headers)
            /\ \A k \in Probes({e[2] : e \in ins}) : GetHeader(m, k) = Expected(low, Lower(k))
            /\ codec.stage = stage =>
                  [some |-> codec.got.some, val |-> codec.got.val]
                  = Expected(low, Lower(codec.got.key))
        Message(m, ins, stage) == Lookups(m, ins, LowerInsertions(ins), stage)
    IN  /\ HeadersBuilt => Message(codec.msg, RecordInsertions(codec.last), "built_got")
        /\ HeadersDecoded =>
              Message(codec.parsed.val, Insertions(WireLines(codec.wire)), "decoded_got")

\* get_header("HOST") on the request decoded from a buffer with the lines
\* "Host: h" and "HOST : H2" has returned "H2"
C20_Witness ==
    /\ codec.op = "request"
    /\ codec.stage = "decoded_got"
    /\ codec.raw
    /\ codec.parsed.val.headers = <<<<Lower(K_HOST), <<"H", "2">>>>>>
    /\ codec.got = [key |-> <<"H", "O", "S", "T">>, some |-> TRUE, val |-> <<"H", "2">>]

(***************************************************************************)
(* The encoder on its own (EncoderSpec): a caller builds a message, calls  *)
(* to_bytes, goes on changing the message and calls to_bytes again.        *)
(***************************************************************************)
\* the largest number of to_bytes calls on one message
MaxEncodes == 2

EncoderMethods == {"POST"}

EncoderPaths == {<<"/", "a">>}

EncoderStatusCodes == {404}

\* the arguments of with_header: headers to_bytes has defaults for, and a
\* value with a line break
EncoderHeaderArgs ==
    {<<<<"C", "o", "n", "t", "e", "n", "t", "-", "L", "e", "n", "g", "t", "h">>, <<"7">>>>,
     <<<<"D", "a", "t", "e">>, <<"d">>>>,
     <<<<"a">>, <<"b", CR, LF, "c", "o", "n", "t", "e", "n", "t", "-", "l", "e", "n", "g", "t", "h",
                 ":", "9">>>>}

EncoderBodies ==
    {[str |-> TRUE, val |-> <<"U+E9">>],
     [str |-> FALSE, val |-> <<"x", "y", "z">>]}

\* the time at the first and at a later to_bytes call
EncoderNows ==
    CodecNows \cup
    {<<"S", "u", "n", ",", SP, "0", "1", SP, "N", "o", "v", SP, "2", "0", "2", "6", SP,
       "1", "4", ":", "0", "0", ":", "0", "1", SP, "G", "M", "T">>}

\* to_bytes of a message that stays in use: sent records the message as it
\* was at the call and as the call left it, the time and the bytes returned
CodecEncode(now) ==
    /\ codec.op \in {"request", "response"}
    /\ codec.stage = "built"
    /\ Len(codec.sent) < MaxEncodes
    /\ codec' = [codec EXCEPT
                    !.msg = IF codec.op = "request" THEN RequestAfterToBytes(@)
                            ELSE ResponseAfterToBytes(@, now),
                    !.sent = Append(@, [msg |-> codec.msg,
                                        after |-> IF codec.op = "request"
                                                  THEN RequestAfterToBytes(codec.msg)
                                                  ELSE ResponseAfterToBytes(codec.msg, now),
                                        now |-> now,
                                        bytes |-> IF codec.op = "request"
                                                  THEN RequestToBytes(codec.msg)
                                                  ELSE ResponseToBytes(codec.msg, now)])]
    /\ UNCHANGED <<clientVars, peer, parked, pc, call, request, sock, tls, tls_sock, timeout, selected_alpn,
                   stream, rd, response_data, plainOut, tlsOut, trace, cnt, origin, result>>

EncoderNext ==
    \/ \E method \in EncoderMethods, path \in EncoderPaths :
          CodecNewRequest(method, path, GURT_VERSION)
    \/ \E status_code \in EncoderStatusCodes : CodecNewResponse(status_code, GURT_VERSION)
    \/ \E kv \in EncoderHeaderArgs : CodecWithHeader(kv[1], kv[2])
    \/ \E body \in EncoderBodies : CodecWithBody(body)
    \/ \E now \in EncoderNows : CodecEncode(now)

EncoderSpec == Init /\ [][EncoderNext]_vars

(***************************************************************************)
(* Properties of the encoder (EncoderSpec).                                *)
(***************************************************************************)
\* the header lines of an encoded message with the name name, as insertions
LinesNamed(bytes, name) == {e \in Insertions(WireLines(bytes)) : Lower(e[2]) = name}

\* the names of the headers to_bytes has a default for
RequiredNames(op) ==
    IF op = "request" THEN {K_CONTENT_LENGTH, K_USER_AGENT}
    ELSE {K_CONTENT_LENGTH, K_SERVER, K_DATE}

\* C21: an encoded message has exactly one header line for each of
\* content-length and user-agent (a request), content-length, server and
\* date (a response); a header the caller set has the caller's value there,
\* and a content-length the caller did not set is the number of bytes that
\* follow the blank line
C21_OneLineForEachRequiredHeader ==
    LET Line(m, bytes, name, lines) ==
            /\ Cardinality(lines) = 1
            /\ DictHas(m.headers, name) => \A e \in lines : e[3] = DictGet(m.headers, name)
            /\ (name = K_CONTENT_LENGTH /\ ~DictHas(m.headers, name)) =>
                  \A e \in lines : e[3] = IntToStr(Len(SplitMessage(bytes)[2]))
        Encoded(op, m, bytes) ==
            \A name \in RequiredNames(op) : Line(m, bytes, name, LinesNamed(bytes, name))
    IN  codec.op \in {"request", "response"} =>
            \A i \in 1..Len(codec.sent) :
                Encoded(codec.op, codec.sent[i].msg, codec.sent[i].bytes)

\* C30: to_bytes leaves method or status, path, version, header map and
\* body of the message as they were; two encodings of the same request are
\* the same bytes; after a change of the body the next encoding ends with
\* the new body and, the caller not having set content-length, has the
\* content-length line of the new body's byte count
C30_EncodingLeavesMessageUnchanged ==
    LET Recomputed(m, bytes) ==
            /\ SplitMessage(bytes)[2] = m.body
            /\ ~DictHas(m.headers, K_CONTENT_LENGTH) =>
                  \E e \in LinesNamed(bytes, K_CONTENT_LENGTH) : e[3] = IntToStr(Len(m.body))
        Calls(op, sent) ==
            /\ \A i \in 1..Len(sent) : sent[i].after = sent[i].msg
            /\ \A i, j \in 1..Len(sent) :
                  (op = "request" /\ sent[i].msg = sent[j].msg) =>
                      sent[i].bytes = sent[j].bytes
            /\ \A i, j \in 1..Len(sent) :
                  (i < j /\ sent[i].msg.body # sent[j].msg.body) =>
                      Recomputed(sent[j].msg, sent[j].bytes)
    IN  codec.op \in {"request", "response"} => Calls(codec.op, codec.sent)

\* a request without headers was encoded with an empty body and, after
\* with_body(b"xyz"), again: the headers are still empty and the second
\* encoding has content-length 3
C30_Witness ==
    /\ codec.op = "request"
    /\ Len(codec.sent) = 2
    /\ codec.msg.headers = <<>>
    /\ codec.sent[1].msg.body = <<>>
    /\ codec.sent[2].msg.body = <<"x", "y", "z">>
    /\ \E e \in LinesNamed(codec.sent[1].bytes, K_CONTENT_LENGTH) : e[3] = <<"0">>
    /\ \E e \in LinesNamed(codec.sent[2].bytes, K_CONTENT_LENGTH) : e[3] = <<"3">>

(***************************************************************************)
(* Properties of the handshake and of the reader (Spec).                   *)
(***************************************************************************)
K_UPGRADE == <<"U", "p", "g", "r", "a", "d", "e">>

\* the client has gone on to the TLS upgrade
UpgradeReached == pc = "wrap" \/ cnt.wrap > 0

\* C22: the client goes on to the TLS upgrade only when the handshake
\* response has status 101 and an Upgrade header that names the protocol
C22_UpgradeNeedsUpgradeHeader ==
    LET Accepted(p) ==
            /\ p.ok
            /\ p.val.status_code = 101
            /\ GetHeader(p.val, K_UPGRADE).some
            /\ StartsWith(GetHeader(p.val, K_UPGRADE).val, PROTOCOL_PREFIX)
    IN  UpgradeReached => Accepted(ResponseParse(response_data.hs))

\* a recv of the reader is pending
Receiving == pc \in {"hs_recv", "resp_recv"}

\* the reader raises an exception of the given kind when its pending recv
\* returns chunk
ReaderRaises(chunk, kind) ==
    /\ ReadStep(rd, chunk).st = "raise"
    /\ ReadStep(rd, chunk).err.kind = kind

\* what the reader has accumulated once its pending recv has returned chunk
Accumulated(chunk) == rd.data \o chunk

\* the reader waits for the header terminator or for body bytes
ReaderWaits ==
    IF rd.inBody THEN Len(rd.body_data) < rd.content_length
    ELSE ~Contains(rd.data, BODY_SEPARATOR)

\* C24 (as claimed): the reader fails with ConnectionError exactly on a
\* zero-length read while it waits for the terminator or for body bytes, and
\* with ProtocolError only when the accumulated bytes exceed the maximum and
\* the headers are still incomplete: a read that completes the headers is
\* not rejected as too large
C24_TooLargeOnlyWhileHeadersIncomplete ==
    Receiving =>
        \A chunk \in RecvChunks :
            /\ ReaderRaises(chunk, "GurtConnectionError") <=> (chunk = <<>> /\ ReaderWaits)
            /\ ReaderRaises(chunk, "GurtProtocolError") =>
                  /\ ~rd.inBody
                  /\ Len(Accumulated(chunk)) > MaxMessageSize
                  /\ ~Contains(Accumulated(chunk), BODY_SEPARATOR)

\* C24 (amended): the reader fails with ConnectionError exactly on a
\* zero-length read while it waits for the terminator or for body bytes, and
\* with ProtocolError exactly when a non-empty read of the header loop takes
\* the accumulated bytes over the maximum, whether or not that read brings
\* the terminator; a failed read of the reader leaves the call with that error
C24_TooLargeAfterEveryHeaderRead ==
    /\ Receiving =>
          /\ ReaderWaits
          /\ \A chunk \in RecvChunks :
                /\ ReaderRaises(chunk, "GurtConnectionError") <=> chunk = <<>>
                /\ ReaderRaises(chunk, "GurtProtocolError") <=>
                      /\ ~rd.inBody
                      /\ chunk # <<>>
                      /\ Len(Accumulated(chunk)) > MaxMessageSize
    /\ (origin.phase \in {"hs_recv", "resp_recv"} /\ origin.exc.kind = "GurtProtocolError") =>
          /\ origin.exc.msg = <<"Response too large">>
          /\ pc = "raised"
          /\ response_data[IF origin.phase = "hs_recv" THEN "hs" ELSE "resp"] = <<>>

\* the read of the application response was rejected as too large, after a
\* handshake response was read in full
C24_Witness ==
    /\ pc = "raised"
    /\ origin = [phase |-> "resp_recv", exc |-> Exc("GurtProtocolError", <<"Response too large">>)]
    /\ response_data.hs # <<>>
    /\ response_data.resp = <<>>

\* the header lines of the header block hd that name content-length, as
\* bytes, in their order
LengthLines(hd) ==
    SelectSeq(SplitAll(hd, HEADER_SEPARATOR),
              LAMBDA line : StartsWith(Lower(line), K_CONTENT_LENGTH \o <<":">>))

\* the value v of a content-length line is not a number: it is empty or has
\* a character that no integer literal has
NonNumeric(v) ==
    \/ Strip(v) = <<>>
    \/ \E i \in 1..Len(v) : ~IsDigit(v[i]) /\ v[i] \notin {"+", "-", "_", SP, "\t", CR, LF}

\* the header block hd declares no length: it has no content-length line, or
\* the value of its content-length line is not a number
NoLength(hd) ==
    \/ LengthLines(hd) = <<>>
    \/ NonNumeric(Drop(LengthLines(hd)[1], Len(K_CONTENT_LENGTH) + 1))

\* C25: when the header block a read completes has no content-length line,
\* or one whose value is not a number, the reader returns with that read
\* what it has accumulated (no further read, no error); it reads body bytes
\* only for a header block that declares a length
C25_NoLengthMeansNoFurtherRead ==
    /\ (Receiving /\ ~rd.inBody) =>
          \A chunk \in RecvChunks :
              (/\ Contains(Accumulated(chunk), BODY_SEPARATOR)
               /\ ~TooLarge(Accumulated(chunk))
               /\ NoLength(SubSeq(Accumulated(chunk), 1, HeaderEnd(Accumulated(chunk)))))
              => ReadStep(rd, chunk) = [st |-> "done", ret |-> Accumulated(chunk)]
    /\ (Receiving /\ rd.inBody) => ~NoLength(rd.headers_data)

\* the same for the header blocks that are UTF-8 only
NoLengthOfTextMeansNoFurtherRead ==
    /\ (Receiving /\ ~rd.inBody) =>
          \A chunk \in RecvChunks :
              (/\ Contains(Accumulated(chunk), BODY_SEPARATOR)
               /\ ~TooLarge(Accumulated(chunk))
               /\ Utf8Valid(SubSeq(Accumulated(chunk), 1, HeaderEnd(Accumulated(chunk))))
               /\ NoLength(SubSeq(Accumulated(chunk), 1, HeaderEnd(Accumulated(chunk)))))
              => ReadStep(rd, chunk) = [st |-> "done", ret |-> Accumulated(chunk)]
    /\ (Receiving /\ rd.inBody) => ~NoLength(rd.headers_data)

(***************************************************************************)
(* Termination of a verb call (FairSpec): every blocking connect, write    *)
(* and read of the call returns, fails or times out.                       *)
(***************************************************************************)
\* a blocking operation of the verb call in progress comes to an end, with
\* any of its outcomes
Blocking ==
    \/ \E e \in {NoExc, SockTimeout, SockError, HostEncodingError} : Connect(e)
    \/ \E e \in {NoExc, SockTimeout, SockError}, answer \in PeerMessages : HandshakeSend(e, answer)
    \/ \E e \in {SockTimeout, SockError} : HandshakeRecv(e, <<>>)
    \/ \E chunk \in RecvChunks : HandshakeRecv(NoExc, chunk)
    \/ \E e \in {NoExc, SockTimeout, SockError, SslError}, alpn \in PeerAlpn : Wrap(e, alpn)
    \/ \E e \in {NoExc, SockTimeout, SockError, SslError}, answer \in PeerMessages : RequestSend(e, answer)
    \/ \E e \in {SockTimeout, SockError, SslError} : ResponseRecv(e, <<>>)
    \/ \E chunk \in RecvChunks : ResponseRecv(NoExc, chunk)

FairSpec == Init /\ [][Next]_vars /\ WF_vars(Blocking)

\* a verb call is in progress
InCall == pc \notin {"idle", "returned", "raised"}

\* the body bytes the reader still waits for
Missing(r) == r.content_length - Len(r.body_data)

\* C26: every verb call in progress comes to return or raise; while the
\* reader waits for the terminator it holds at most the maximum message
\* size, and every read of the body loop that is followed by another one
\* has reduced the number of body bytes still missing
C26_EveryCallTerminates ==
    /\ InCall ~> (pc \in {"returned", "raised"})
    /\ []((Receiving /\ ~rd.inBody) => Len(rd.data) <= MaxMessageSize)
    /\ [][(Receiving /\ rd.inBody /\ pc' = pc) =>
             (Missing(rd') < Missing(rd) /\ Missing(rd') > 0)]_vars

\* a response was returned whose body came from a peer that never stops
\* sending, after a handshake response read in several reads
C26_Witness ==
    /\ pc = "returned"
    /\ IsEndless(response_data.resp)
    /\ Len(FrameBody(response_data.resp)) >= 5
    /\ FrameBody(response_data.hs) = <<".">>

(***************************************************************************)
(* Properties of the timeouts (Spec).                                      *)
(***************************************************************************)
\* the three timeouts of the configuration differ, so that the value in
\* force tells which one it is
DistinctTimeouts ==
    Cardinality({config.connection_timeout, config.handshake_timeout,
                 config.request_timeout}) = 3

\* C27: the socket that connect returned carries connection_timeout, every
\* read of the handshake response is made under handshake_timeout and every
\* read of the application response under request_timeout, never under the
\* timeout of another phase
C27_TimeoutFollowsPhase ==
    /\ DistinctTimeouts
    /\ pc = "hs_send" => timeout = config.connection_timeout
    /\ pc = "hs_recv" =>
          /\ timeout = config.handshake_timeout
          /\ timeout \notin {config.connection_timeout, config.request_timeout}
    /\ pc = "resp_recv" =>
          /\ timeout = config.request_timeout
          /\ timeout \notin {config.connection_timeout, config.handshake_timeout}

\* a read of the body of the application response is pending, after a
\* handshake response that took several reads, under a configuration that
\* is not the default one
C27_Witness ==
    /\ pc = "resp_recv"
    /\ rd.inBody
    /\ config # DefaultConfig
    /\ timeout = config.request_timeout
    /\ FrameBody(response_data.hs) = <<".">>

(***************************************************************************)
(* Properties of a verb call whose URL is rejected (Spec).                 *)
(***************************************************************************)
\* the URL of the verb call was rejected by _parse_gurt_url
UrlRejected == origin.phase = "resolve"

\* C28: a verb call whose URL is rejected has raised with no socket
\* created, no request built, nothing connected or written and no byte
\* awaited, and the step that rejects the URL leaves the configuration and
\* the TLS context of the client as they were
C28_RejectedUrlHasNoEffect ==
    /\ [](UrlRejected =>
            /\ pc = "raised"
            /\ result.kind = "error"
            /\ sock = "None" /\ tls = "None" /\ ~tls_sock
            /\ request = NoRequest
            /\ plainOut = <<>> /\ tlsOut = <<>>
            /\ trace = <<>>
            /\ stream = <<>> /\ rd = NewReader /\ response_data = NoData
            /\ timeout = 0 /\ selected_alpn = <<>>
            /\ cnt = [NoCounts EXCEPT !.fail = 1])
    /\ [][(UrlRejected \/ UrlRejected') => UNCHANGED <<config, ssl_context>>]_vars

\* post with an address of another scheme has raised
C28_Witness ==
    /\ UrlRejected
    /\ call.verb = "post"
    /\ StartsWith(call.url, <<"h", "t", "t", "p">>)
    /\ result.error.kind = "GurtError"

(***************************************************************************)
(* The reader and the codec on the messages the reader returns (Spec).     *)
(***************************************************************************)
\* the codec splits the returned message m where the reader did
SameSplit(m) == ResponseParse(m).ok => ResponseParse(m).val.body = FrameBody(m)

\* the content-length header of the decoded response p, as a number;
\* 0 when p has none or its value is not a number
DecodedLength(p) ==
    IF GetHeader(p, K_CONTENT_LENGTH).some /\ PyInt(GetHeader(p, K_CONTENT_LENGTH).val).ok
    THEN PyInt(GetHeader(p, K_CONTENT_LENGTH).val).val
    ELSE 0

\* C29: for every message the reader has returned and the codec decodes,
\* the body of the decoded response is what follows the first blank line,
\* as for the reader, and the content-length the reader read until is the
\* content-length header of the decoded response
C29_ReaderAndCodecAgree ==
    \A m \in Returned :
        /\ SameSplit(m)
        /\ ResponseParse(m).ok => Declared(m) = DecodedLength(ResponseParse(m).val)

\* the part of it that is about the split
ReaderAndCodecSplitAlike == \A m \in Returned : SameSplit(m)

(***************************************************************************)
(* Two verb calls on one client (ConcurrentSpec): two threads call verb    *)
(* methods of the same GurtClient.  The variables of the verb call are the *)
(* locals of the thread that runs; those of the other thread are parked.   *)
(* A thread can be suspended between any two of its blocking operations.   *)
(* What the peer of each call does is fixed when the threads start, so     *)
(* that the outcome of a call can be compared with what its peer did.      *)
(***************************************************************************)
ConcurrentVerbs == {"get", "post"}

ConcurrentUrls == {<<"g", "u", "r", "t", ":", "/", "/", "H", ":", "8", "0", "/", "a", "?", "q">>}

ConcurrentBody == <<"U+E9">>

Switching101 ==
    <<"G", "U", "R", "T", "/", "1", ".", "0", ".", "0", SP, "1", "0", "1", SP, "S", CR, LF, CR, LF>>

NotFound404 ==
    <<"G", "U", "R", "T", "/", "1", ".", "0", ".", "0", SP, "4", "0", "4", CR, LF, CR, LF>>

Ok200 ==
    <<"G", "U", "R", "T", "/", "1", ".", "0", ".", "0", SP, "2", "0", "0", SP, "O", "K", CR, LF,
      "c", "o", "n", "t", "e", "n", "t", "-", "l", "e", "n", "g", "t", "h", ":", SP, "2", CR, LF, CR, LF, "h", "i">>

\* what the peer of a call does: the outcome of the connect, its answer to
\* the handshake, the ALPN identifier it selects, its answer to the request,
\* and whether a recv gets all pending bytes or at most MaxChunk of them
ConcurrentPeers ==
    {[connect |-> NoExc, hs |-> Switching101, alpn |-> GURT_ALPN, resp |-> Ok200, whole |-> TRUE],
     [connect |-> NoExc, hs |-> Switching101, alpn |-> GURT_ALPN, resp |-> Ok200, whole |-> FALSE],
     [connect |-> NoExc, hs |-> Switching101, alpn |-> GURT_ALPN, resp |-> NotFound404, whole |-> FALSE],
     [connect |-> SockError, hs |-> Switching101, alpn |-> GURT_ALPN, resp |-> Ok200, whole |-> TRUE],
     [connect |-> NoExc, hs |-> NotFound404, alpn |-> GURT_ALPN, resp |-> Ok200, whole |-> FALSE],
     [connect |-> NoExc, hs |-> Switching101, alpn |-> <<"h", "2">>, resp |-> Ok200, whole |-> TRUE]}

\* the verb call of the running thread, as a parked one
Running ==
    [pc |-> pc, call |-> call, request |-> request, sock |-> sock, tls |-> tls,
     tls_sock |-> tls_sock, timeout |-> timeout, selected_alpn |-> selected_alpn,
     stream |-> stream, rd |-> rd, response_data |-> response_data, plainOut |-> plainOut,
     tlsOut |-> tlsOut, trace |-> trace, cnt |-> cnt, origin |-> origin, result |-> result,
     peer |-> peer]

\* a thread that has not called yet, with the peer p
Waiting(p) ==
    [pc |-> "idle", call |-> NoCall, request |-> NoRequest, sock |-> "None", tls |-> "None",
     tls_sock |-> FALSE, timeout |-> 0, selected_alpn |-> <<>>,
     stream |-> <<>>, rd |-> NewReader, response_data |-> NoData, plainOut |-> <<>>,
     tlsOut |-> <<>>, trace |-> <<>>, cnt |-> NoCounts, origin |-> NoOrigin, result |-> NoResult,
     peer |-> p]

ConcurrentInit ==
    /\ config \in Configs
    /\ ssl_context = CreateSslContext(config)
    /\ pc = "idle"
    /\ call = NoCall
    /\ request = NoRequest
    /\ sock = "None"
    /\ tls = "None"
    /\ tls_sock = FALSE
    /\ timeout = 0
    /\ selected_alpn = <<>>
    /\ stream = <<>>
    /\ rd = NewReader
    /\ response_data = NoData
    /\ plainOut = <<>>
    /\ tlsOut = <<>>
    /\ trace = <<>>
    /\ cnt = NoCounts
    /\ origin = NoOrigin
    /\ result = NoResult
    /\ codec = CodecIdle
    /\ peer \in ConcurrentPeers
    /\ parked \in {Waiting(p) : p \in ConcurrentPeers}

\* a reader whose buffer is one object for all calls of the client
ResumedReaderShared(resumed, running) == running

\* the reader of the thread that is resumed: data, headers_data, body_data
\* and content_length are locals of its own call of _read_response_data
ResumedReader(resumed, running) == resumed

\* the running thread is suspended and the other thread goes on
Switch ==
    /\ parked.pc # "none"
    /\ parked' = Running
    /\ pc' = parked.pc
    /\ call' = parked.call
    /\ request' = parked.request
    /\ sock' = parked.sock
    /\ tls' = parked.tls
    /\ tls_sock' = parked.tls_sock
    /\ timeout' = parked.timeout
    /\ selected_alpn' = parked.selected_alpn
    /\ stream' = parked.stream
    /\ rd' = ResumedReader(parked.rd, rd)
    /\ response_data' = parked.response_data
    /\ plainOut' = parked.plainOut
    /\ tlsOut' = parked.tlsOut
    /\ trace' = parked.trace
    /\ cnt' = parked.cnt
    /\ origin' = parked.origin
    /\ result' = parked.result
    /\ peer' = parked.peer
    /\ UNCHANGED <<clientVars, codec>>

\* what the next recv of the running call returns from its peer
ConcurrentChunks ==
    LET Largest(sizes) == CHOOSE n \in sizes : \A m \in sizes : m <= n
        Sized(sizes) ==
            IF peer.whole THEN Largest(sizes) ELSE Largest({n \in sizes : n <= MaxChunk})
    IN  {chunk \in RecvChunks : Len(chunk) = Sized({Len(c) : c \in RecvChunks})}

ConcurrentNext ==
    \/ \E verb \in ConcurrentVerbs, url \in ConcurrentUrls : Call(verb, url, ConcurrentBody)
    \/ Connect(peer.connect)
    \/ HandshakeSend(NoExc, peer.hs)
    \/ \E chunk \in ConcurrentChunks : HandshakeRecv(NoExc, chunk)
    \/ Wrap(NoExc, peer.alpn)
    \/ RequestSend(NoExc, peer.resp)
    \/ \E chunk \in ConcurrentChunks : ResponseRecv(NoExc, chunk)
    \/ Switch

ConcurrentSpec == ConcurrentInit /\ [][ConcurrentNext]_vars

(***************************************************************************)
(* Properties of concurrent verb calls (ConcurrentSpec).                   *)
(***************************************************************************)
\* the verb call t is over
Finished(t) == t.pc \in {"returned", "raised"}

\* the request the verb method of call t builds
OwnRequest(t) ==
    BuildRequest(t.call.verb, ParseGurtUrl(t.call.url).val, ConcurrentBody, TEXT_PLAIN, config)

\* the bytes the peer of call t has sent in answer to what t reads now
Answer(t) == IF t.pc = "hs_recv" THEN t.peer.hs ELSE t.peer.resp

\* call t has built its own request, has created at most one socket, and what
\* its reader holds and what is still pending for it are together what its
\* own peer sent
OwnObjects(t) ==
    /\ t.pc # "idle" => t.request = OwnRequest(t)
    /\ t.cnt.sockets <= 1 /\ t.cnt.connect <= 1
    /\ t.pc \in {"hs_recv", "resp_recv"} =>
          (IF t.rd.inBody THEN t.rd.headers_data \o t.rd.body_data ELSE t.rd.data) \o t.stream
          = Answer(t)

\* the outcome of call t is the one of a call alone with the same peer
SoloOutcome(t) ==
    IF t.peer.connect # NoExc
    THEN /\ t.result.kind = "error" /\ t.result.error.kind = "GurtConnectionError"
         /\ t.plainOut = <<>> /\ t.tlsOut = <<>>
    ELSE IF t.peer.hs # Switching101
    THEN /\ t.result.kind = "error" /\ t.result.error.kind = "GurtHandshakeError"
         /\ t.plainOut = <<RequestToBytes(HandshakeRequest(t.call.host, config))>>
         /\ t.tlsOut = <<>>
         /\ t.sock = "closed"
    ELSE IF t.peer.alpn # GURT_ALPN
    THEN /\ t.result.kind = "error" /\ t.result.error.kind = "GurtTLSError"
         /\ t.tlsOut = <<>>
    ELSE /\ t.result = [kind |-> "response", error |-> NoExc,
                        response |-> ResponseParse(t.peer.resp).val]
         /\ t.response_data = [hs |-> t.peer.hs, resp |-> t.peer.resp]
         /\ t.plainOut = <<RequestToBytes(HandshakeRequest(t.call.host, config))>>
         /\ t.tlsOut = <<RequestToBytes(OwnRequest(t))>>
         /\ t.tls = "closed"

\* C23: under every interleaving of two verb calls on one client, each call
\* has its own request, socket and read buffer, each finished call has the
\* outcome of a call alone with the same peer, two finished calls with the
\* same arguments and the same peer behaviour have ended alike, and config
\* and the TLS context (TLS 1.3 only, the one ALPN identifier) never change
C23_ConcurrentCallsDoNotInterfere ==
    /\ [](/\ OwnObjects(Running) /\ OwnObjects(parked)
          /\ Finished(Running) => SoloOutcome(Running)
          /\ Finished(parked) => SoloOutcome(parked)
          /\ (/\ Finished(Running) /\ Finished(parked)
              /\ call = parked.call /\ peer = parked.peer) => Running = parked
          /\ ssl_context = CreateSslContext(config)
          /\ ssl_context.minimum_version = "TLSv1_3"
          /\ ssl_context.maximum_version = "TLSv1_3"
          /\ ssl_context.alpn_protocols = <<GURT_ALPN>>)
    /\ [][UNCHANGED <<config, ssl_context>>]_vars

\* both calls are over: a get that got its response from a peer that sent it
\* in pieces, and a post whose peer selected another ALPN identifier
C23_Witness ==
    /\ pc = "returned"
    /\ call.verb = "get"
    /\ ~peer.whole
    /\ result.response.body = <<"h", "i">>
    /\ parked.pc = "raised"
    /\ parked.call.verb = "post"
    /\ parked.result.error.kind = "GurtTLSError"

====
